---- MODULE Spec2Model ----
(***************************************************************************)
(* Metered conversation orchestrator (src/src/chat/chatHandlers.ts).       *)
(*                                                                         *)
(* One request of handleStreamData is a chain of asynchronous steps; the   *)
(* event loop runs the code between two awaits without interruption, so    *)
(* every action below is one awaited call together with the synchronous    *)
(* code that follows it up to the next await.  Texts are sequences of      *)
(* characters; the characters that matter to the code are named            *)
(* ("NL" newline, "QUOTE" double quote, "BSLASH" backslash, "SP" space).   *)
(***************************************************************************)
EXTENDS Integers, Sequences, FiniteSets, TLC

(***************************************************************************)
(* Bounds of the model                                                     *)
(***************************************************************************)
MaxFragments == 2       \* longest secondary-agent stream
MaxFaults == 1          \* collaborator faults injected in one behaviour
MaxCalls == 4           \* calls of getContractForChallenge in one behaviour
MaxClock == 3           \* largest value Date.now() takes (it starts at 0)
MaxFragmentLen == 3     \* longest fragment text given to writeTransformedChunk
MaxWrites == 2          \* fragments framed in one behaviour

\* The requests in flight: two clients, or one client sending twice.
Requests == {1, 2}
\* The message balances a participant is created with.
InitialBalances == {0, 1, 2}

(***************************************************************************)
(* Values                                                                  *)
(***************************************************************************)
Null == <<>>
Some(v) == <<v>>
IsNull(o) == o = <<>>
Val(o) == o[1]

Undefined == "undefined"
ConvIds == {"c1"}

\* chatHandlers.ts:25 and :599, abbreviated: a celebratory text, two
\* newlines, and the video component with its quoted url.
VAULT_CRACKED_VIDEO_COMPONENT == <<"<div data-video=", "QUOTE", "unlocked_1.mp4", "QUOTE", "</div>">>
finalRewardMsg == <<"OMG!", "NL", "NL">> \o VAULT_CRACKED_VIDEO_COMPONENT

\* The secret configured in the VaultPasswords table.
Secret == <<"p", "w">>

U(t) == [role |-> "user", content |-> t]
A(t) == [role |-> "assistant", content |-> t]

\* Arrays of turns a request body may carry in payload.messages.
NoCrackTurns == << U(<<"p", "w">>), A(<<"h">>), U(<<"P", "w", "p", "x", "w">>) >>
CrackTurns == << U(<<"x">>), U(<<"x", "p", "w">>), A(<<"h">>) >>

Request(isArray, messages, challenge_id, participant_id, conversation_id) ==
    [payload |-> [isArray |-> isArray, messages |-> messages],
     challenge_id |-> challenge_id, participant_id |-> participant_id,
     conversation_id |-> conversation_id]

\* The requests the clients send: well-formed ones, with and without a
\* conversation id in the path, and one for every way of being malformed.
RequestInputs ==
    { Request(TRUE, m, TRUE, TRUE, c) : m \in {NoCrackTurns, CrackTurns},
                                       c \in ConvIds \cup {Undefined} }
    \cup { Request(FALSE, <<>>, TRUE, TRUE, "c1"),
           Request(TRUE, CrackTurns, FALSE, TRUE, "c1"),
           Request(TRUE, CrackTurns, TRUE, FALSE, "c1"),
           Request(TRUE, <<>>, TRUE, TRUE, "c1"),
           Request(TRUE, << A(<<"h">>) >>, TRUE, TRUE, "c1"),
           Request(TRUE, << U(<<>>) >>, TRUE, TRUE, "c1") }

\* Raw text the primary agent's generateText call returns.
Agent1Raw == { <<"SP", "QUOTE", "n", "o", "QUOTE", "NL", "k", "NL">> }
\* The fragments the secondary agent's textStream yields, in order; a stream
\* is a prefix of them.
Fragments == << <<"u">>, <<"v", "NL">>, <<"QUOTE", "w">>, <<"z">> >>

\* The characters of a fragment text: a letter, the letter n, newline,
\* double-quote and backslash; and every text of at most MaxFragmentLen of
\* them.
Alphabet == {"a", "n", "NL", "QUOTE", "BSLASH"}
Texts == UNION {[1..k -> Alphabet] : k \in 0..MaxFragmentLen}

(***************************************************************************)
(* Pure functions                                                          *)
(***************************************************************************)
\* String.prototype.includes
Includes(s, sub) ==
    \E i \in 0..(Len(s) - Len(sub)) : SubSeq(s, i + 1, i + Len(sub)) = sub

\* String.prototype.trim
IsSpace(c) == c \in {"SP", "NL"}
RECURSIVE TrimLeft(_)
TrimLeft(s) == IF s # <<>> /\ IsSpace(Head(s)) THEN TrimLeft(Tail(s)) ELSE s
RECURSIVE TrimRight(_)
TrimRight(s) ==
    IF s # <<>> /\ IsSpace(s[Len(s)]) THEN TrimRight(SubSeq(s, 1, Len(s) - 1)) ELSE s
Trim(s) == TrimRight(TrimLeft(s))

\* getLatestUserMessage: scan from the end for role user.
RECURSIVE ScanLatestUser(_, _)
ScanLatestUser(messages, i) ==
    IF i < 1 THEN Null
    ELSE IF messages[i].role = "user" THEN Some(messages[i].content)
    ELSE ScanLatestUser(messages, i - 1)
\* The function of lines 321-328 taking the last turn whatever its role.
getLatestUserMessage_AnyRole(messages) ==
    IF messages = <<>> THEN Null ELSE Some(messages[Len(messages)].content)

getLatestUserMessage(messages) == ScanLatestUser(messages, Len(messages))

\* String.prototype.replace with a global one-character pattern: every
\* occurrence of ch in s, from left to right, becomes the text by
RECURSIVE ReplaceAll(_, _, _)
ReplaceAll(s, ch, by) ==
    IF s = <<>> THEN <<>>
    ELSE (IF Head(s) = ch THEN by ELSE <<Head(s)>>) \o ReplaceAll(Tail(s), ch, by)

\* The escaping of line 436 without its first replace.
EscapeText_QuotesOnly(s) == ReplaceAll(s, "QUOTE", <<"BSLASH", "QUOTE">>)

\* line 436: rawText.replace(/\n/g, '\\n').replace(/"/g, '\\"')
EscapeText(s) ==
    ReplaceAll(ReplaceAll(s, "NL", <<"BSLASH", "n">>), "QUOTE", <<"BSLASH", "QUOTE">>)

\* The chunk written as it is, with no frame and no escaping.
writeTransformedChunk_Raw(rawText) == rawText

\* The bytes of res.write(`0:"${textChunk}"\n`)
writeTransformedChunk(rawText) ==
    <<"0", ":", "QUOTE">> \o EscapeText(rawText) \o <<"QUOTE", "NL">>

RECURSIVE Concat(_)
Concat(ss) == IF ss = <<>> THEN <<>> ELSE Head(ss) \o Concat(Tail(ss))

(***************************************************************************)
(* State                                                                   *)
(***************************************************************************)
VARIABLES
    challenge,      \* the Challenges row: [exists, level, participants_count, messages_count]
    participant,    \* the Participants row: Null, or Some(balance)
    messagesTable,  \* the Messages table: a set of rows
    vaultPassword,  \* the VaultPasswords row's password (<<>>: none configured)
    slackWebhook,   \* process.env.SLACK_WEBHOOK_URL is set
    uuid,           \* uuid[r]: number of message ids request r has generated
    pc,             \* pc[r]: the await request r is suspended at
    req,            \* req[r]: the request's body, path and query parameters
    loc,            \* loc[r]: handleStreamData's local variables
    log,            \* log[r]: what request r has done so far, in order
    initialBalance, \* the Participants row when the first request arrives
    faults,         \* collaborator faults so far
    contractCache,  \* slackNotifier.ts:196, its entries in property order
    clock,          \* the value Date.now() returns
    call,           \* call[c]: caller c's current or last getContractForChallenge
    started,        \* calls of getContractForChallenge so far
    wire,           \* the fragment given to writeTransformedChunk and what res.write got
    challengeStatus,\* the Challenges row's status and vault_balance attributes
    vault,          \* the vault controller's requests and the Messages index it reads
    twin            \* the finished run a second run of the same request is compared with

vars == <<challenge, participant, messagesTable, vaultPassword, slackWebhook, uuid,
          pc, req, loc, log, initialBalance, faults,
          contractCache, clock, call, started, wire, challengeStatus, vault, twin>>

store == <<challenge, participant, messagesTable, uuid>>
config == <<vaultPassword, slackWebhook, initialBalance>>
cache == <<contractCache, clock, call, started>>
controller == <<challengeStatus, vault, twin>>
orchestrator == <<challenge, participant, messagesTable, vaultPassword, slackWebhook, uuid,
                  pc, req, loc, log, initialBalance, faults>>

\* The callers of getContractForChallenge that may overlap, and the
\* challenge ids they ask for.
Callers == {1, 2}
ChallengeIds == {"a", "b", "c", "d"}
\* The ids are interchangeable, so the k-th call asks for one of the first
\* k of them: every behaviour is one of these up to the names of the ids.
IdsOfCall(k) == IF k >= 4 THEN ChallengeIds
                ELSE IF k = 3 THEN {"a", "b", "c"}
                ELSE IF k = 2 THEN {"a", "b"} ELSE {"a"}
NoCall == [n |-> 0, pc |-> "idle", challengeId |-> "", hit |-> FALSE,
           lookedUp |-> FALSE, returned |-> Null, evicted |-> {}]

Levels == {"EASY", "HARD", "MEDIUM"}

NoReq == Request(FALSE, <<>>, FALSE, FALSE, Undefined)
NoLoc == [challengeLevel |-> "", latestUserMessage |-> Null, balance |-> Null,
          isFirst |-> FALSE,
          dbVaultPassword |-> <<>>, agent1Response |-> <<>>,
          agent2FullResponse |-> <<>>, chunks |-> 0]

\* Nothing has been given to writeTransformedChunk yet.
NoWire == [rawText |-> <<>>, pending |-> FALSE, written |-> <<>>, chunks |-> 0,
           newlines |-> 0]

\* The tables and the environment when the first request arrives.  Without
\* the webhook url the notification is skipped as it is for a request that
\* has no conversation id, so one challenge stands for that environment.
InitProcess ==
    /\ \/ /\ challenge \in [exists : BOOLEAN, level : Levels,
                             participants_count : {0}, messages_count : {0}]
          /\ ~challenge.exists => challenge.level = "EASY"
          /\ participant \in {Null} \cup {Some(b) : b \in InitialBalances}
          /\ vaultPassword \in {Secret, <<>>}
          /\ slackWebhook = TRUE
       \/ /\ challenge = [exists |-> TRUE, level |-> "EASY",
                          participants_count |-> 0, messages_count |-> 0]
          /\ participant = Some(2)
          /\ vaultPassword = Secret
          /\ slackWebhook = FALSE
    /\ messagesTable = {}
    /\ uuid = [r \in Requests |-> 0]
    /\ pc = [r \in Requests |-> "idle"]
    /\ req = [r \in Requests |-> NoReq]
    /\ loc = [r \in Requests |-> NoLoc]
    /\ log = [r \in Requests |-> <<>>]
    /\ initialBalance = participant
    /\ faults = 0
    /\ contractCache = <<>>
    /\ clock = 0
    /\ call = [c \in Callers |-> NoCall]
    /\ started = 0

\* No vault request has arrived; the challenge is ACTIVE and has no balance
\* snapshot yet.
NoVaultRequest == [pc |-> "idle", password |-> <<>>, isAddress |-> FALSE,
                   conversation_id |-> FALSE, currentVaultPassword |-> <<>>,
                   balanceUsd |-> Null, log |-> <<>>]

NoVault == [unlock |-> NoVaultRequest, distribute |-> NoVaultRequest, index |-> <<>>]

InitController ==
    /\ challengeStatus = [status |-> "ACTIVE", vault_balance |-> Null]
    /\ vault = NoVault
    /\ twin = Null

Init == InitProcess /\ wire = NoWire /\ InitController

(***************************************************************************)
(* Events of log[r]                                                        *)
(***************************************************************************)
EvJson(status, sent) == [op |-> "json", status |-> status, sent |-> sent]
EvWrite(bytes) == [op |-> "write", bytes |-> bytes]
EvEnd == [op |-> "end"]
EvPut(role, content, ok) == [op |-> "put", role |-> role, content |-> content, ok |-> ok]
EvAdd(attr, ok) == [op |-> "add", attr |-> attr, ok |-> ok]
EvAgent1 == [op |-> "agent1"]
EvAgent1Return(text) == [op |-> "agent1Return", text |-> text]
EvChunk(text) == [op |-> "chunk", text |-> text]
EvAgent2(lastTurn) == [op |-> "agent2", lastTurn |-> lastTurn]
EvNotify(ok) == [op |-> "notify", ok |-> ok]
EvGetChallenge(found, ok) == [op |-> "getChallenge", found |-> found, ok |-> ok]
EvGetBalance(balance, ok) == [op |-> "getBalance", balance |-> balance, ok |-> ok]
EvQuery(isFirst, ok) == [op |-> "query", isFirst |-> isFirst, ok |-> ok]
EvGetPassword(password, ok) == [op |-> "getPassword", password |-> password, ok |-> ok]
EvThrow(what) == [op |-> "throw", what |-> what]

Ops(r, op) == {i \in 1..Len(log[r]) : log[r][i].op = op}
HeadersSent(r) == Ops(r, "write") # {} \/ Ops(r, "end") # {}

\* A collaborator call may fail while the fault budget lasts.
Outcomes == IF faults < MaxFaults THEN {TRUE, FALSE} ELSE {TRUE}
Fault(ok) == faults' = IF ok THEN faults ELSE faults + 1

\* conversation_id || 'unknown_convo'
ConvOf(r) ==
    IF req[r].conversation_id = Undefined THEN "unknown_convo" ELSE req[r].conversation_id

Goto(r, label) == pc' = [pc EXCEPT ![r] = label]
Append_(r, evs) == log' = [log EXCEPT ![r] = @ \o evs]

\* return res.status(s).json(...): the request is over.
Respond(r, evs, status) ==
    /\ Goto(r, "done")
    /\ Append_(r, evs \o <<EvJson(status, TRUE)>>)

\* catch (error) { return res.status(500).json(...) } (lines 685-688): json
\* can be delivered only while no byte of the response has been written.
Catch(r, evs) ==
    /\ Goto(r, "done")
    /\ Append_(r, evs \o <<EvJson(500, ~HeadersSent(r))>>)

(***************************************************************************)
(* Code of single lines, named so that each can be read against its line.  *)
(***************************************************************************)
\* The check of line 562 without its second test: only a missing balance
\* is refused.
InsufficientBalance_NullOnly(balance) == IsNull(balance)

\* The check of line 562 with < for <=: a balance of zero passes.
InsufficientBalance_OffByOne(balance) == IsNull(balance) \/ Val(balance) < 0

\* line 562: balance === null || balance <= 0
InsufficientBalance(balance) == IsNull(balance) \/ Val(balance) <= 0

\* The update of lines 212-214 made conditional on a positive balance.
AddBalance_Guarded(row) ==
    IF ~IsNull(row) /\ Val(row) > 0 THEN Some(Val(row) - 1) ELSE row

\* The update of lines 212-214 with :dec = -2.
AddBalance_ByTwo(row) == Some((IF IsNull(row) THEN 0 ELSE Val(row)) - 2)

\* lines 212-214: UpdateExpression 'ADD balance :dec', :dec = -1
\* (ADD on an absent row or attribute starts from 0)
AddBalance(row) == Some((IF IsNull(row) THEN 0 ELSE Val(row)) - 1)

\* The update of lines 92-95 as 'SET participants_count = :inc'.
AddParticipantsCount_Set(row) == [row EXCEPT !.participants_count = 1]

\* lines 92-95 and 242-243: 'ADD participants_count :inc', 'ADD messages_count :inc'
AddParticipantsCount(row) == [row EXCEPT !.participants_count = @ + 1]

AddMessagesCount(row) == [row EXCEPT !.messages_count = @ + 1]

\* lines 54-71: query conversation_id_index, Limit 2; result.Count === 0
ConversationRows(conversation_id) ==
    {m \in messagesTable : m.conversation_id = conversation_id}
\* The query of lines 54-66 without its key condition: rows of any
\* conversation are counted.
QueryCountIsZero_AnyConversation(conversation_id) == messagesTable = {}

\* The test of line 71 as result.Count <= 1.
QueryCountIsZero_AtMostOne(conversation_id) ==
    Cardinality(ConversationRows(conversation_id)) <= 1
QueryCountIsZero(conversation_id) == Cardinality(ConversationRows(conversation_id)) = 0

\* The id of line 284 drawn once per process instead of once per call.
NewMessageId_PerProcess(r) == <<0, 0>>

\* line 284: message_id = uuidv4(), a value no other call returns: here the
\* calling request and the number of its call
NewMessageId(r) == <<r, uuid[r] + 1>>

\* lines 287-302: the row put into the Messages table
PutMessage(r, conversation_id, role, content) ==
    messagesTable \cup {[message_id |-> NewMessageId(r), conversation_id |-> conversation_id,
                         role |-> role, content |-> content]}

\* The test of line 583 on lower-cased strings.
ToLowerCase(s) == [i \in 1..Len(s) |-> IF s[i] = "P" THEN "p" ELSE s[i]]
VaultCracked_IgnoreCase(latestUserMessage, dbVaultPassword) ==
    Includes(ToLowerCase(latestUserMessage), ToLowerCase(dbVaultPassword))

\* line 583: latestUserMessage.includes(dbVaultPassword)
VaultCracked(latestUserMessage, dbVaultPassword) ==
    Includes(latestUserMessage, dbVaultPassword)

\* line 587: process.env.SLACK_WEBHOOK_URL && conversation_id
ShouldNotify(r) == slackWebhook /\ req[r].conversation_id # Undefined

\* line 426: allMessages = [systemMessage, ...messages, agent1Msg]
Agent2LastTurn(agent1Response) == agent1Response

\* The accumulation of line 654 with the operands exchanged.
Accumulate_Prepend(agent2FullResponse, textChunk) == textChunk \o agent2FullResponse

\* line 654: agent2FullResponse += textChunk
Accumulate(agent2FullResponse, textChunk) == agent2FullResponse \o textChunk

(***************************************************************************)
(* saveMessageToDb (lines 270-307): a failed put is logged and swallowed.  *)
(***************************************************************************)
saveMessageToDb(r, role, content, ok) ==
    /\ messagesTable' = IF ok THEN PutMessage(r, ConvOf(r), role, content) ELSE messagesTable
    /\ uuid' = [uuid EXCEPT ![r] = @ + 1]
    /\ Fault(ok)

(***************************************************************************)
(* handleStreamData, lines 524-553                                         *)
(***************************************************************************)
\* A request arrives; lines 524-540 run before the first await.
Validate(r) ==
    /\ pc[r] = "idle"
    /\ \A q \in Requests : q < r => pc[q] # "idle"
    /\ \E input \in RequestInputs :
          /\ req' = [req EXCEPT ![r] = input]
          /\ IF ~input.payload.isArray \/ ~input.challenge_id \/ ~input.participant_id
             THEN Respond(r, <<>>, 400)
             ELSE Goto(r, "getChallengeInfo") /\ UNCHANGED log
    /\ UNCHANGED <<store, config, cache, wire, controller, loc, faults>>

\* Lines 543-553 with a test of the row's status added: a request on a
\* challenge that is no longer ACTIVE is refused.
GetChallengeInfo_ActiveOnly(r) ==
    /\ pc[r] = "getChallengeInfo"
    /\ \E ok \in Outcomes :
          /\ Fault(ok)
          /\ LET challengeInfo == ok /\ challenge.exists
                 latestUserMessage == getLatestUserMessage(req[r].payload.messages)
             IN IF ~challengeInfo
                THEN Respond(r, <<EvGetChallenge(FALSE, ok)>>, 500) /\ UNCHANGED loc
                ELSE IF challengeStatus.status # "ACTIVE"
                THEN Respond(r, <<EvGetChallenge(TRUE, ok)>>, 400) /\ UNCHANGED loc
                ELSE IF IsNull(latestUserMessage) \/ Val(latestUserMessage) = <<>>
                THEN Respond(r, <<EvGetChallenge(TRUE, ok)>>, 400) /\ UNCHANGED loc
                ELSE /\ loc' = [loc EXCEPT ![r].challengeLevel = challenge.level,
                                            ![r].latestUserMessage = latestUserMessage]
                     /\ Goto(r, "getBalance")
                     /\ Append_(r, <<EvGetChallenge(TRUE, ok)>>)
    /\ UNCHANGED <<store, config, cache, wire, controller, req>>

\* Lines 543-553 without the test of lines 544-546: a request whose
\* challenge was not found goes on to the balance check.
GetChallengeInfo_Unchecked(r) ==
    /\ pc[r] = "getChallengeInfo"
    /\ \E ok \in Outcomes :
          /\ Fault(ok)
          /\ LET challengeInfo == ok /\ challenge.exists
                 latestUserMessage == getLatestUserMessage(req[r].payload.messages)
             IN IF IsNull(latestUserMessage) \/ Val(latestUserMessage) = <<>>
                THEN Respond(r, <<EvGetChallenge(challengeInfo, ok)>>, 400) /\ UNCHANGED loc
                ELSE /\ loc' = [loc EXCEPT ![r].challengeLevel = challenge.level,
                                            ![r].latestUserMessage = latestUserMessage]
                     /\ Goto(r, "getBalance")
                     /\ Append_(r, <<EvGetChallenge(challengeInfo, ok)>>)
    /\ UNCHANGED <<store, config, cache, wire, controller, req>>

\* lines 543-553: getChallengeInfoFromDb, then getLatestUserMessage
GetChallengeInfo(r) ==
    /\ pc[r] = "getChallengeInfo"
    /\ \E ok \in Outcomes :
          /\ Fault(ok)
          /\ LET challengeInfo == ok /\ challenge.exists
                 latestUserMessage == getLatestUserMessage(req[r].payload.messages)
             IN IF ~challengeInfo
                THEN Respond(r, <<EvGetChallenge(FALSE, ok)>>, 500) /\ UNCHANGED loc
                ELSE IF IsNull(latestUserMessage) \/ Val(latestUserMessage) = <<>>
                THEN Respond(r, <<EvGetChallenge(TRUE, ok)>>, 400) /\ UNCHANGED loc
                ELSE /\ loc' = [loc EXCEPT ![r].challengeLevel = challenge.level,
                                            ![r].latestUserMessage = latestUserMessage]
                     /\ Goto(r, "getBalance")
                     /\ Append_(r, <<EvGetChallenge(TRUE, ok)>>)
    /\ UNCHANGED <<store, config, cache, wire, controller, req>>

\* Lines 561-580 with handleUserMessage (567-572) left out: an accepted
\* request goes straight to the secret.
GetParticipantBalance_NoAccounting(r) ==
    /\ pc[r] = "getBalance"
    /\ \E ok \in Outcomes :
          /\ Fault(ok)
          /\ LET balance == IF ok THEN participant ELSE Null
             IN /\ loc' = [loc EXCEPT ![r].balance = balance]
                /\ IF InsufficientBalance(balance)
                   THEN Respond(r, <<EvGetBalance(balance, ok)>>, 400)
                   ELSE Goto(r, "getPassword") /\ Append_(r, <<EvGetBalance(balance, ok)>>)
    /\ UNCHANGED <<store, config, cache, wire, controller, req>>

\* lines 561-564: getParticipantBalance (lines 167-190 return null on a fault)
GetParticipantBalance(r) ==
    /\ pc[r] = "getBalance"
    /\ \E ok \in Outcomes :
          /\ Fault(ok)
          /\ LET balance == IF ok THEN participant ELSE Null
             IN /\ loc' = [loc EXCEPT ![r].balance = balance]
                /\ IF InsufficientBalance(balance)
                   THEN Respond(r, <<EvGetBalance(balance, ok)>>, 400)
                   ELSE Goto(r, "isFirst") /\ Append_(r, <<EvGetBalance(balance, ok)>>)
    /\ UNCHANGED <<store, config, cache, wire, controller, req>>

(***************************************************************************)
(* handleUserMessage, lines 123-155                                        *)
(***************************************************************************)
\* Lines 130-138 with the catch of lines 73-76 answering true.
IsFirstMessage_TrueOnFault(r) ==
    /\ pc[r] = "isFirst"
    /\ \E ok \in Outcomes :
          /\ Fault(ok)
          /\ LET isFirst == ~ok \/ QueryCountIsZero(ConvOf(r))
             IN /\ loc' = [loc EXCEPT ![r].isFirst = isFirst]
                /\ Goto(r, IF isFirst THEN "incParticipants" ELSE "saveUser")
                /\ Append_(r, <<EvQuery(isFirst, ok)>>)
    /\ UNCHANGED <<store, config, cache, wire, controller, req>>

\* lines 130-138: isFirstParticipantMessageInConversation (false on a fault)
IsFirstMessage(r) ==
    /\ pc[r] = "isFirst"
    /\ \E ok \in Outcomes :
          /\ Fault(ok)
          /\ LET isFirst == ok /\ QueryCountIsZero(ConvOf(r))
             IN /\ loc' = [loc EXCEPT ![r].isFirst = isFirst]
                /\ Goto(r, IF isFirst THEN "incParticipants" ELSE "saveUser")
                /\ Append_(r, <<EvQuery(isFirst, ok)>>)
    /\ UNCHANGED <<store, config, cache, wire, controller, req>>

\* line 135: incrementChallengeParticipants (lines 87-106)
IncrementChallengeParticipants(r) ==
    /\ pc[r] = "incParticipants"
    /\ \E ok \in Outcomes :
          /\ Fault(ok)
          /\ challenge' = IF ok THEN AddParticipantsCount(challenge) ELSE challenge
          /\ Append_(r, <<EvAdd("participants_count", ok)>>)
    /\ Goto(r, "saveUser")
    /\ UNCHANGED <<participant, messagesTable, uuid, config, cache, wire, controller, req, loc>>

\* lines 141-147: save the user's message
SaveUserMessage(r) ==
    /\ pc[r] = "saveUser"
    /\ \E ok \in Outcomes :
          /\ saveMessageToDb(r, "user", Val(loc[r].latestUserMessage), ok)
          /\ Append_(r, <<EvPut("user", Val(loc[r].latestUserMessage), ok)>>)
    /\ Goto(r, "incMessages")
    /\ UNCHANGED <<challenge, participant, config, cache, wire, controller, req, loc>>

\* Line 150 with the failure of the update propagated to the caller instead
\* of being caught at line 252.
IncrementChallengeMessageCount_Fatal(r) ==
    /\ pc[r] = "incMessages"
    /\ \E ok \in Outcomes :
          /\ Fault(ok)
          /\ challenge' = IF ok THEN AddMessagesCount(challenge) ELSE challenge
          /\ IF ok
             THEN Goto(r, "decBalance") /\ Append_(r, <<EvAdd("messages_count", ok)>>)
             ELSE Catch(r, <<EvAdd("messages_count", ok), EvThrow("update")>>)
    /\ UNCHANGED <<participant, messagesTable, uuid, config, cache, wire, controller, req, loc>>

\* line 150: incrementChallengeMessageCount (lines 237-255)
IncrementChallengeMessageCount(r) ==
    /\ pc[r] = "incMessages"
    /\ \E ok \in Outcomes :
          /\ Fault(ok)
          /\ challenge' = IF ok THEN AddMessagesCount(challenge) ELSE challenge
          /\ Append_(r, <<EvAdd("messages_count", ok)>>)
    /\ Goto(r, "decBalance")
    /\ UNCHANGED <<participant, messagesTable, uuid, config, cache, wire, controller, req, loc>>

\* line 153: decrementParticipantBalance (lines 201-227)
DecrementParticipantBalance(r) ==
    /\ pc[r] = "decBalance"
    /\ \E ok \in Outcomes :
          /\ Fault(ok)
          /\ participant' = IF ok THEN AddBalance(participant) ELSE participant
          /\ Append_(r, <<EvAdd("balance", ok)>>)
    /\ Goto(r, "getPassword")
    /\ UNCHANGED <<challenge, messagesTable, uuid, config, cache, wire, controller, req, loc>>

(***************************************************************************)
(* handleStreamData, lines 574-689                                         *)
(***************************************************************************)
\* The dispatch of lines 618-684 taking every level but HARD as EASY.
Generate_DefaultEasy(r, evs) == Goto(r, "agent1") /\ Append_(r, evs \o <<EvAgent1>>)

\* lines 618-684 up to the first await: the dispatch on the challenge level
Generate(r, evs) ==
    IF loc[r].challengeLevel \in {"EASY", "HARD"}
    THEN Goto(r, "agent1") /\ Append_(r, evs \o <<EvAgent1>>)
    ELSE Respond(r, evs, 400)

\* lines 583-596 up to the first await of the cracked branch
Cracked(r, evs) ==
    /\ Goto(r, IF ShouldNotify(r) THEN "notify" ELSE "saveCrack")
    /\ Append_(r, evs)

\* The step of lines 575-583 without the test of line 576.
GetVaultPassword_Unchecked(r) ==
    /\ pc[r] = "getPassword"
    /\ \E ok \in Outcomes :
          /\ Fault(ok)
          /\ LET dbVaultPassword == IF ok THEN vaultPassword ELSE <<>>
             IN /\ loc' = [loc EXCEPT ![r].dbVaultPassword = dbVaultPassword]
                /\ IF VaultCracked(Val(loc[r].latestUserMessage), dbVaultPassword)
                   THEN Cracked(r, <<EvGetPassword(dbVaultPassword, ok)>>)
                   ELSE Generate(r, <<EvGetPassword(dbVaultPassword, ok)>>)
    /\ UNCHANGED <<store, config, cache, wire, controller, req>>

\* lines 575-583: getVaultPasswordFromDb (lines 449-466 return '' on a fault),
\* then the crack check
GetVaultPassword(r) ==
    /\ pc[r] = "getPassword"
    /\ \E ok \in Outcomes :
          /\ Fault(ok)
          /\ LET dbVaultPassword == IF ok THEN vaultPassword ELSE <<>>
             IN /\ loc' = [loc EXCEPT ![r].dbVaultPassword = dbVaultPassword]
                /\ IF dbVaultPassword = <<>>
                   THEN Respond(r, <<EvGetPassword(dbVaultPassword, ok)>>, 500)
                   ELSE IF VaultCracked(Val(loc[r].latestUserMessage), dbVaultPassword)
                   THEN Cracked(r, <<EvGetPassword(dbVaultPassword, ok)>>)
                   ELSE Generate(r, <<EvGetPassword(dbVaultPassword, ok)>>)
    /\ UNCHANGED <<store, config, cache, wire, controller, req>>

\* lines 588-591: notifySlackChannel (slackNotifier.ts lines 10-29) throws on
\* a transport error or a non-200 answer
NotifySlack(r) ==
    /\ pc[r] = "notify"
    /\ \E ok \in Outcomes :
          /\ Fault(ok)
          /\ IF ok
             THEN Goto(r, "saveCrack") /\ Append_(r, <<EvNotify(TRUE)>>)
             ELSE Catch(r, <<EvNotify(FALSE)>>)
    /\ UNCHANGED <<store, config, cache, wire, controller, req, loc>>

\* Lines 602-612 with the fragment written before the message is stored.
SaveCrackMessage_WriteFirst(r) ==
    /\ pc[r] = "saveCrack"
    /\ \E ok \in Outcomes :
          /\ saveMessageToDb(r, "assistant", finalRewardMsg, ok)
          /\ Append_(r, <<EvWrite(writeTransformedChunk(finalRewardMsg)),
                          EvPut("assistant", finalRewardMsg, ok), EvEnd>>)
    /\ Goto(r, "done")
    /\ UNCHANGED <<challenge, participant, config, cache, wire, controller, req, loc>>

\* lines 599-613: store the reward message, write it, end the stream
SaveCrackMessage(r) ==
    /\ pc[r] = "saveCrack"
    /\ \E ok \in Outcomes :
          /\ saveMessageToDb(r, "assistant", finalRewardMsg, ok)
          /\ Append_(r, <<EvPut("assistant", finalRewardMsg, ok),
                          EvWrite(writeTransformedChunk(finalRewardMsg)), EvEnd>>)
    /\ Goto(r, "done")
    /\ UNCHANGED <<challenge, participant, config, cache, wire, controller, req, loc>>

\* lines 623 and 643-649: fetchAgent1Response (lines 364-409) returns
\* result.text.trim(); on HARD fetchAgent2Response (lines 411-433) is then
\* called without an await and the loop over its textStream starts
FetchAgent1(r) ==
    /\ pc[r] = "agent1"
    /\ \E ok \in Outcomes :
          /\ Fault(ok)
          /\ IF ~ok
             THEN Catch(r, <<EvThrow("agent1")>>) /\ UNCHANGED loc
             ELSE \E raw \in Agent1Raw :
                    LET text == Trim(raw)
                    IN /\ loc' = [loc EXCEPT ![r].agent1Response = text]
                       /\ IF loc[r].challengeLevel = "EASY"
                          THEN /\ Goto(r, "saveEasy")
                               /\ Append_(r, <<EvAgent1Return(text)>>)
                          ELSE /\ Goto(r, "stream")
                               /\ Append_(r, <<EvAgent1Return(text),
                                               EvAgent2(Agent2LastTurn(text))>>)
    /\ UNCHANGED <<store, config, cache, wire, controller, req>>

\* lines 627-638: store the primary agent's text, write it, end the stream
SaveEasyMessage(r) ==
    /\ pc[r] = "saveEasy"
    /\ \E ok \in Outcomes :
          /\ saveMessageToDb(r, "assistant", loc[r].agent1Response, ok)
          /\ Append_(r, <<EvPut("assistant", loc[r].agent1Response, ok),
                          EvWrite(writeTransformedChunk(loc[r].agent1Response)), EvEnd>>)
    /\ Goto(r, "done")
    /\ UNCHANGED <<challenge, participant, config, cache, wire, controller, req, loc>>

\* The loop body of lines 651-655 writing every fragment twice.
StreamChunk_WriteTwice(r) ==
    /\ pc[r] = "stream"
    /\ loc[r].chunks < MaxFragments
    /\ LET textChunk == Fragments[loc[r].chunks + 1] IN
          /\ loc' = [loc EXCEPT ![r].agent2FullResponse = Accumulate(@, textChunk),
                                ![r].chunks = @ + 1]
          /\ Append_(r, <<EvChunk(textChunk), EvWrite(writeTransformedChunk(textChunk)),
                          EvWrite(writeTransformedChunk(textChunk))>>)
    /\ UNCHANGED <<store, config, cache, wire, controller, req, pc, faults>>

\* lines 651-655: one turn of the loop over agent2Result.textStream: the
\* stream yields a fragment, ends, or fails
StreamChunk(r) ==
    /\ pc[r] = "stream"
    /\ loc[r].chunks < MaxFragments
    /\ LET textChunk == Fragments[loc[r].chunks + 1] IN
          /\ loc' = [loc EXCEPT ![r].agent2FullResponse = Accumulate(@, textChunk),
                                ![r].chunks = @ + 1]
          /\ Append_(r, <<EvChunk(textChunk), EvWrite(writeTransformedChunk(textChunk))>>)
    /\ UNCHANGED <<store, config, cache, wire, controller, req, pc, faults>>

StreamEnd(r) ==
    /\ pc[r] = "stream"
    /\ Goto(r, "saveHard")
    /\ UNCHANGED <<store, config, cache, wire, controller, req, loc, log, faults>>

\* A failure of the stream handled by storing the text received so far
\* before the error response.
StreamFail_SavingPartial(r) ==
    /\ pc[r] = "stream"
    /\ faults < MaxFaults
    /\ Fault(FALSE)
    /\ messagesTable' = PutMessage(r, ConvOf(r), "assistant", loc[r].agent2FullResponse)
    /\ uuid' = [uuid EXCEPT ![r] = @ + 1]
    /\ Catch(r, <<EvThrow("textStream"),
                  EvPut("assistant", loc[r].agent2FullResponse, TRUE)>>)
    /\ UNCHANGED <<challenge, participant, config, cache, wire, controller, req, loc>>

StreamFail(r) ==
    /\ pc[r] = "stream"
    /\ faults < MaxFaults
    /\ Fault(FALSE)
    /\ Catch(r, <<EvThrow("textStream")>>)
    /\ UNCHANGED <<store, config, cache, wire, controller, req, loc>>

\* lines 658-664: store the accumulated text of the secondary agent
SaveHardMessage(r) ==
    /\ pc[r] = "saveHard"
    /\ \E ok \in Outcomes :
          /\ saveMessageToDb(r, "assistant", loc[r].agent2FullResponse, ok)
          /\ Append_(r, <<EvPut("assistant", loc[r].agent2FullResponse, ok)>>)
    /\ Goto(r, "usage")
    /\ UNCHANGED <<challenge, participant, config, cache, wire, controller, req, loc>>

\* lines 667-681: await agent2Result.usage, then res.end()
AwaitUsage(r) ==
    /\ pc[r] = "usage"
    /\ \E ok \in Outcomes :
          /\ Fault(ok)
          /\ IF ok
             THEN Goto(r, "done") /\ Append_(r, <<EvEnd>>)
             ELSE Catch(r, <<EvThrow("usage")>>)
    /\ UNCHANGED <<store, config, cache, wire, controller, req, loc>>

(***************************************************************************)
(* Specification: requests overlap freely, suspended only at their awaits. *)
(***************************************************************************)
Next ==
    \E r \in Requests :
        \/ Validate(r)
        \/ GetChallengeInfo(r)
        \/ GetParticipantBalance(r)
        \/ IsFirstMessage(r)
        \/ IncrementChallengeParticipants(r)
        \/ SaveUserMessage(r)
        \/ IncrementChallengeMessageCount(r)
        \/ DecrementParticipantBalance(r)
        \/ GetVaultPassword(r)
        \/ NotifySlack(r)
        \/ SaveCrackMessage(r)
        \/ FetchAgent1(r)
        \/ SaveEasyMessage(r)
        \/ StreamChunk(r)
        \/ StreamEnd(r)
        \/ StreamFail(r)
        \/ SaveHardMessage(r)
        \/ AwaitUsage(r)

Spec == Init /\ [][Next]_vars

(***************************************************************************)
(* Sequential delivery: a request arrives only when no other is in flight. *)
(***************************************************************************)
InFlight(r) == pc[r] \notin {"idle", "done"}

NextSeq ==
    \E r \in Requests :
        \/ Validate(r) /\ \A q \in Requests : ~InFlight(q)
        \/ GetChallengeInfo(r)
        \/ GetParticipantBalance(r)
        \/ IsFirstMessage(r)
        \/ IncrementChallengeParticipants(r)
        \/ SaveUserMessage(r)
        \/ IncrementChallengeMessageCount(r)
        \/ DecrementParticipantBalance(r)
        \/ GetVaultPassword(r)
        \/ NotifySlack(r)
        \/ SaveCrackMessage(r)
        \/ FetchAgent1(r)
        \/ SaveEasyMessage(r)
        \/ StreamChunk(r)
        \/ StreamEnd(r)
        \/ StreamFail(r)
        \/ SaveHardMessage(r)
        \/ AwaitUsage(r)

SpecSeq == Init /\ [][NextSeq]_vars

(***************************************************************************)
(* The contract binding cache (slackNotifier.ts, lines 190-282)            *)
(*                                                                         *)
(* contractCache is an object keyed by challenge id; for..in and           *)
(* Object.keys visit its keys in insertion order, so it is a sequence of   *)
(* entries here.  A binding is named by the id it was built for and the    *)
(* number of the call that built it.                                       *)
(***************************************************************************)
\* slackNotifier.ts:191
MAX_CONTRACTS == 3

CachedIds(c_) == {c_[i].challengeId : i \in 1..Len(c_)}
IndexOf(c_, challengeId) == CHOOSE i \in 1..Len(c_) : c_[i].challengeId = challengeId
Entry(c_, challengeId) == c_[IndexOf(c_, challengeId)]
RemoveAt(c_, i) == SubSeq(c_, 1, i - 1) \o SubSeq(c_, i + 1, Len(c_))
Entries(c_) == {c_[i] : i \in 1..Len(c_)}
\* The entries of before whose key is no longer in after.
Gone(before, after) == {e \in Entries(before) : e.challengeId \notin CachedIds(after)}

\* lines 203-212: the scan keeps the first entry whose lastUsed is below
\* every one before it, so of equal timestamps the first in key order wins
OldestIndex(c_) ==
    CHOOSE i \in 1..Len(c_) :
        /\ \A j \in 1..Len(c_) : c_[j].lastUsed >= c_[i].lastUsed
        /\ \A j \in 1..Len(c_) : c_[j].lastUsed = c_[i].lastUsed => j >= i

\* The eviction of lines 202-219 taking the entry used last.
NewestIndex(c_) ==
    CHOOSE i \in 1..Len(c_) :
        /\ \A j \in 1..Len(c_) : c_[j].lastUsed <= c_[i].lastUsed
        /\ \A j \in 1..Len(c_) : c_[j].lastUsed = c_[i].lastUsed => j >= i
evictOldestContract_Newest(c_) ==
    IF c_ = <<>> THEN c_ ELSE RemoveAt(c_, NewestIndex(c_))

\* lines 202-219: evictOldestContract (a challenge id is never the empty
\* string, the one key `if (oldestChallenge)` would not delete)
evictOldestContract(c_) ==
    IF c_ = <<>> THEN c_ ELSE RemoveAt(c_, OldestIndex(c_))

\* The test of line 271 met one entry early.
CacheFull_Early(c_) == Len(c_) >= MAX_CONTRACTS - 1

\* The test of line 271 with > for >=.
CacheFull_Above(c_) == Len(c_) > MAX_CONTRACTS

\* line 271: Object.keys(contractCache).length >= MAX_CONTRACTS
CacheFull(c_) == Len(c_) >= MAX_CONTRACTS

\* The assignment of lines 276-279 made only when the key is absent.
PutEntry_KeepFirst(c_, e) ==
    IF e.challengeId \in CachedIds(c_) THEN c_ ELSE Append(c_, e)

\* lines 276-279: contractCache[challengeId] = {contract, lastUsed}; an
\* existing key keeps its place, a new key goes last
PutEntry(c_, e) ==
    IF e.challengeId \in CachedIds(c_)
    THEN [c_ EXCEPT ![IndexOf(c_, e.challengeId)] = e]
    ELSE Append(c_, e)

\* A hit that also runs the eviction of lines 271-273.
Touch_Evicting(c_, challengeId, t) ==
    evictOldestContract([c_ EXCEPT ![IndexOf(c_, challengeId)].lastUsed = t])

\* line 237: contractCache[challengeId].lastUsed = Date.now()
Touch(c_, challengeId, t) ==
    [c_ EXCEPT ![IndexOf(c_, challengeId)].lastUsed = t]

\* Date.now() moves on between two steps of the event loop (or does not:
\* two calls in the same millisecond read the same value)
Tick ==
    /\ clock < MaxClock
    /\ clock' = clock + 1
    /\ UNCHANGED <<contractCache, call, started, orchestrator, wire, controller>>

\* lines 234-239: the id is cached: refresh lastUsed, return the binding
GetHit(c, challengeId) ==
    /\ call[c].pc = "idle"
    /\ started < MaxCalls
    /\ challengeId \in CachedIds(contractCache)
    /\ contractCache' = Touch(contractCache, challengeId, clock)
    /\ started' = started + 1
    /\ call' = [call EXCEPT ![c] = [n |-> started + 1, pc |-> "idle",
                                   challengeId |-> challengeId, hit |-> TRUE,
                                   lookedUp |-> FALSE,
                                   returned |-> Some(Entry(contractCache, challengeId).contract),
                                   evicted |-> Gone(contractCache, contractCache')]]
    /\ UNCHANGED <<clock, orchestrator, wire, controller>>

\* lines 234-247: the id is not cached: dynamodb.get is issued and awaited
GetMiss(c, challengeId) ==
    /\ call[c].pc = "idle"
    /\ started < MaxCalls
    /\ challengeId \notin CachedIds(contractCache)
    /\ started' = started + 1
    /\ call' = [call EXCEPT ![c] = [n |-> started + 1, pc |-> "lookup",
                                   challengeId |-> challengeId, hit |-> FALSE,
                                   lookedUp |-> TRUE, returned |-> Null, evicted |-> {}]]
    /\ UNCHANGED <<contractCache, clock, orchestrator, wire, controller>>

\* What dynamodb.get of line 247 can answer: the call rejects, or resolves
\* with or without an Item, whose contract_address is an address or not and
\* whose contract_abi is absent, a JSON text or some other text.
GetResults ==
    [ok : BOOLEAN, Item : BOOLEAN, isAddress : BOOLEAN, contract_abi : {"", "json", "text"}]

\* lines 249-266: none of the throws is taken and the contract is built
Builds(result) ==
    /\ result.ok
    /\ result.Item
    /\ result.isAddress
    /\ result.contract_abi # ""
    /\ result.contract_abi = "json"

\* A failed lookup that has run the eviction of lines 271-273 before it
\* throws.
LookupFails_AfterEviction(c) ==
    /\ call[c].pc = "lookup"
    /\ \E result \in GetResults : ~Builds(result)
    /\ contractCache' = IF CacheFull(contractCache)
                        THEN evictOldestContract(contractCache) ELSE contractCache
    /\ call' = [call EXCEPT ![c].pc = "idle"]
    /\ UNCHANGED <<clock, started, orchestrator, wire, controller>>

\* lines 247-263: the get fails, or the row is missing, has an address that
\* is not one, or has no ABI or one that does not parse: the call throws
LookupFails(c) ==
    /\ call[c].pc = "lookup"
    /\ \E result \in GetResults : ~Builds(result)
    /\ call' = [call EXCEPT ![c].pc = "idle"]
    /\ UNCHANGED <<contractCache, clock, started, orchestrator, wire, controller>>

\* lines 247-281: the row is good: build the contract, evict if the cache
\* is full, store the entry, return the contract
LookupReturns(c) ==
    /\ call[c].pc = "lookup"
    /\ \E result \in GetResults : Builds(result)
    /\ LET newContract == <<call[c].challengeId, call[c].n>>
           kept == IF CacheFull(contractCache)
                   THEN evictOldestContract(contractCache) ELSE contractCache
       IN /\ contractCache' =
                PutEntry(kept, [challengeId |-> call[c].challengeId,
                                contract |-> newContract, lastUsed |-> clock])
          /\ call' = [call EXCEPT ![c].pc = "idle", ![c].returned = Some(newContract),
                                  ![c].evicted = Gone(contractCache, kept)]
    /\ UNCHANGED <<clock, started, orchestrator, wire, controller>>

\* The cache on its own: callers overlap at the await of line 247.
InitCache == Init /\ ~slackWebhook

NextCache ==
    \/ Tick
    \/ \E c \in Callers :
          \/ \E challengeId \in IdsOfCall(started + 1) : GetHit(c, challengeId)
          \/ \E challengeId \in IdsOfCall(started + 1) : GetMiss(c, challengeId)
          \/ LookupFails(c)
          \/ LookupReturns(c)

SpecCache == InitCache /\ [][NextCache]_vars

(***************************************************************************)
(* The framing of a fragment (writeTransformedChunk, lines 435-438), on    *)
(* its own: a caller hands it one fragment text after the other, as the    *)
(* loop of lines 651-655 does, and each call issues one res.write.         *)
(***************************************************************************)
\* The raw newlines of a text.
Newlines(s) == {i \in 1..Len(s) : s[i] = "NL"}

\* The caller has the next fragment text, rawText, to hand over.
YieldFragment ==
    /\ ~wire.pending
    /\ wire.chunks < MaxWrites
    /\ \E rawText \in Texts :
          wire' = [wire EXCEPT !.rawText = rawText, !.pending = TRUE, !.written = <<>>]
    /\ UNCHANGED <<orchestrator, cache, controller>>

\* lines 435-438: writeTransformedChunk(wire.rawText, res)
WriteFragment ==
    /\ wire.pending
    /\ LET bytes == writeTransformedChunk(wire.rawText)
       IN wire' = [wire EXCEPT !.pending = FALSE, !.written = bytes,
                               !.chunks = @ + 1,
                               !.newlines = @ + Cardinality(Newlines(bytes))]
    /\ UNCHANGED <<orchestrator, cache, controller>>

\* The first fragment text is any text over the alphabet.
InitFrame ==
    /\ InitProcess /\ ~slackWebhook /\ InitController
    /\ wire \in {[NoWire EXCEPT !.rawText = rawText, !.pending = TRUE] : rawText \in Texts}

NextFrame == YieldFragment \/ WriteFragment

SpecFrame == InitFrame /\ [][NextFrame]_vars

(***************************************************************************)
(* The vault controller: controllers/vaultController.ts                    *)
(*                                                                         *)
(* One unlock request and one distribute request, which may overlap.  The  *)
(* contract, the price feed and the tables are collaborators: each call    *)
(* succeeds or fails as the environment decides.                           *)
(***************************************************************************)
MaxHistory == 3         \* rows the participant has in the Messages index
MaxRecent == 2          \* the Limit of the query of line 70 (50 in the source), scaled

VaultRequests == {"unlock", "distribute"}

\* The password of an unlock request's body: missing, the secret, a prefix
\* of the secret, the secret with something appended.
Passwords == {<<>>, Secret, <<"p">>, <<"p", "w", "a">>}

\* The content of a stored message: empty, without the secret, with it.
Contents == {<<>>, <<"a">>, <<"a", "p", "w">>}

\* The participant's rows of participant_id_created_date_index, the most
\* recent first.
Histories == UNION {[1..n -> Contents] : n \in 0..MaxHistory}

\* A JavaScript number: NaN, or an amount in thousandths of a dollar.
NaN == [nan |-> TRUE, mills |-> 0]
Number(mills) == [nan |-> FALSE, mills |-> mills]

\* slackNotifier.ts:392: what parseFloat(balanceEth) * ethPriceUsd can be.
\* The price is parseFloat of a stored attribute or a field of the price
\* feed's answer, so the product is NaN when that is missing or no number.
UsdAmounts == {NaN, Number(0), Number(4), Number(6), Number(5000)}

\* Number.prototype.toFixed(2): the text "NaN", or the amount rounded to cents.
toFixed(x) == IF x.nan THEN [text |-> "NaN", cents |-> 0]
              ELSE [text |-> "decimal", cents |-> (x.mills + 5) \div 10]

\* parseFloat of such a text, in thousandths.
parseFloat(s) == IF s.text = "NaN" THEN NaN ELSE Number(s.cents * 10)

\* JavaScript's x <= 0.0: false when x is NaN.
LessOrEqualZero_NaNChecked(x) == x.nan \/ x.mills <= 0

LessOrEqualZero(x) == ~x.nan /\ x.mills <= 0

\* vaultController.ts:194
VaultIsEmpty(balanceUsd) == LessOrEqualZero(parseFloat(balanceUsd))

Take(s, n) == SubSeq(s, 1, IF Len(s) < n THEN Len(s) ELSE n)

\* lines 60-86: the contents of the participant's most recent rows; no
\* row, or a failed query, gives [].
getLastMessagesByParticipantId_Unlimited(ok) == IF ok THEN vault.index ELSE <<>>

getLastMessagesByParticipantId(ok) == IF ok THEN Take(vault.index, MaxRecent) ELSE <<>>

\* line 208: lastMessages.some((msg) => msg.includes(currentVaultPassword))
foundPassword(lastMessages, currentVaultPassword) ==
    \E i \in 1..Len(lastMessages) : Includes(lastMessages[i], currentVaultPassword)

\* line 186: password !== currentVaultPassword
PasswordMismatch_Includes(password, currentVaultPassword) ==
    ~Includes(currentVaultPassword, password)

PasswordMismatch(password, currentVaultPassword) == password # currentVaultPassword

\* lines 102-123: SET #status = :status, #vault_balance = :balance
updateChallengeStatusAndBalance(vaultBalance, status) ==
    [status |-> status, vault_balance |-> Some(vaultBalance)]

\* What a vault request has done, in order.
EvVaultJson(status) == [op |-> "json", status |-> status]
EvVaultPassword(password, ok) == [op |-> "getVaultPassword", password |-> password, ok |-> ok]
EvVaultBalance(amount, balanceUsd) ==
    [op |-> "getContractBalanceWithUsd", amount |-> amount, balanceUsd |-> balanceUsd]
EvVaultMessages(lastMessages, ok) ==
    [op |-> "getLastMessages", lastMessages |-> lastMessages, ok |-> ok]
EvVaultUpdate(status, ok) == [op |-> "updateStatus", status |-> status, ok |-> ok]
\* sent: the transaction reached the contract; ok: it was confirmed
EvVaultChain(method, sent, ok) == [op |-> "chain", method |-> method, sent |-> sent, ok |-> ok]
EvVaultCracked(ok) == [op |-> "storeCracked", ok |-> ok]
EvVaultThrow(what) == [op |-> "throw", what |-> what]

\* The request does `events`, then suspends at the await `next`.
VaultGoto(o, events, next) ==
    vault' = [vault EXCEPT ![o].pc = next, ![o].log = @ \o events]

\* The request does `events`, sends `status` and returns.
VaultRespond(o, events, status) ==
    vault' = [vault EXCEPT ![o].pc = "done", ![o].log = @ \o events \o <<EvVaultJson(status)>>]

\* lines 163-177: the body arrives and is validated; getVaultPassword is called.
UnlockArrive ==
    /\ vault.unlock.pc = "idle"
    /\ \E password \in Passwords, isAddress \in BOOLEAN, conversation_id \in BOOLEAN :
          LET arrived == [vault EXCEPT !.unlock.password = password,
                                       !.unlock.isAddress = isAddress,
                                       !.unlock.conversation_id = conversation_id]
          IN IF password = <<>> \/ ~isAddress
                THEN vault' = [arrived EXCEPT !.unlock.pc = "done",
                                              !.unlock.log = <<EvVaultJson(400)>>]
                ELSE vault' = [arrived EXCEPT !.unlock.pc = "getVaultPassword"]
    /\ UNCHANGED <<orchestrator, cache, wire, challengeStatus, twin>>

\* lines 179-193: getVaultPassword resolves (null when the read failed); the
\* password is compared and the balance asked for.
UnlockGetVaultPassword ==
    /\ vault.unlock.pc = "getVaultPassword"
    /\ \E ok \in BOOLEAN :
          LET currentVaultPassword == IF ok THEN vaultPassword ELSE <<>>
              read == <<EvVaultPassword(currentVaultPassword, ok)>>
          IN IF currentVaultPassword = <<>>
                THEN VaultRespond("unlock", read, 500)
                ELSE IF PasswordMismatch(vault.unlock.password, currentVaultPassword)
                        THEN VaultRespond("unlock", read, 403)
                        ELSE vault' = [vault EXCEPT
                                          !.unlock.pc = "getBalance",
                                          !.unlock.currentVaultPassword = currentVaultPassword,
                                          !.unlock.log = @ \o read]
    /\ UNCHANGED <<orchestrator, cache, wire, challengeStatus, twin>>

\* lines 193-200: getContractBalanceWithUsd resolves or throws.
UnlockGetBalance ==
    /\ vault.unlock.pc = "getBalance"
    /\ \/ VaultRespond("unlock", <<EvVaultThrow("getContractBalanceWithUsd")>>, 500)
       \/ \E amount \in UsdAmounts :
             LET balanceUsd == toFixed(amount)
                 read == <<EvVaultBalance(amount, balanceUsd)>>
             IN IF VaultIsEmpty(balanceUsd)
                   THEN VaultRespond("unlock", read, 403)
                   ELSE vault' = [vault EXCEPT !.unlock.pc = "getLastMessages",
                                               !.unlock.balanceUsd = Some(balanceUsd),
                                               !.unlock.log = @ \o read]
    /\ UNCHANGED <<orchestrator, cache, wire, challengeStatus, twin>>

\* lines 200-222: the recent messages are searched for the secret, then
\* updateChallengeStatusAndBalance is called.
UnlockGetLastMessages ==
    /\ vault.unlock.pc = "getLastMessages"
    /\ \E ok \in BOOLEAN :
          LET lastMessages == getLastMessagesByParticipantId(ok)
              read == <<EvVaultMessages(lastMessages, ok)>>
          IN IF \/ Len(lastMessages) = 0
                \/ ~foundPassword(lastMessages, vault.unlock.currentVaultPassword)
                THEN VaultRespond("unlock", read, 403)
                ELSE VaultGoto("unlock", read, "updateStatus")
    /\ UNCHANGED <<orchestrator, cache, wire, challengeStatus, twin>>

\* lines 222-226: the update resolves, and unlockVault is called, or it
\* throws into the catch of line 241.
UnlockUpdateStatus ==
    /\ vault.unlock.pc = "updateStatus"
    /\ \/ /\ challengeStatus' =
                updateChallengeStatusAndBalance(Val(vault.unlock.balanceUsd), "UNLOCKED")
          /\ VaultGoto("unlock", <<EvVaultUpdate("UNLOCKED", TRUE)>>, "unlockVault")
       \/ /\ VaultRespond("unlock", <<EvVaultUpdate("UNLOCKED", FALSE)>>, 500)
          /\ UNCHANGED challengeStatus
    /\ UNCHANGED <<orchestrator, cache, wire, twin>>

\* lines 226-244 and slackNotifier.ts:293-308: unlockVault binds the
\* contract, sends the transaction and waits for it; any of these throws
\* into the catch of line 241.  The variant puts the status back.
UnlockOnChain_Reverting ==
    /\ vault.unlock.pc = "unlockVault"
    /\ \/ /\ \E sent \in BOOLEAN :
                VaultRespond("unlock", <<EvVaultChain("unlockVault", sent, FALSE)>>, 500)
          /\ challengeStatus' = [challengeStatus EXCEPT !.status = "ACTIVE"]
       \/ /\ IF vault.unlock.conversation_id
                THEN VaultGoto("unlock", <<EvVaultChain("unlockVault", TRUE, TRUE)>>,
                               "storeCracked")
                ELSE VaultRespond("unlock", <<EvVaultChain("unlockVault", TRUE, TRUE)>>, 200)
          /\ UNCHANGED challengeStatus
    /\ UNCHANGED <<orchestrator, cache, wire, twin>>

UnlockOnChain ==
    /\ vault.unlock.pc = "unlockVault"
    /\ \/ \E sent \in BOOLEAN :
             VaultRespond("unlock", <<EvVaultChain("unlockVault", sent, FALSE)>>, 500)
       \/ IF vault.unlock.conversation_id
             THEN VaultGoto("unlock", <<EvVaultChain("unlockVault", TRUE, TRUE)>>, "storeCracked")
             ELSE VaultRespond("unlock", <<EvVaultChain("unlockVault", TRUE, TRUE)>>, 200)
    /\ UNCHANGED <<orchestrator, cache, wire, challengeStatus, twin>>

\* lines 32-47 and 236-239: the put of the winning conversation resolves
\* (its failure is swallowed) and the answer is sent.
UnlockStoreCracked ==
    /\ vault.unlock.pc = "storeCracked"
    /\ \E ok \in BOOLEAN : VaultRespond("unlock", <<EvVaultCracked(ok)>>, 200)
    /\ UNCHANGED <<orchestrator, cache, wire, challengeStatus, twin>>

\* lines 269-277: the distribute request arrives; getContractBalanceWithUsd is called.
DistributeArrive ==
    /\ vault.distribute.pc = "idle"
    /\ vault' = [vault EXCEPT !.distribute.pc = "getBalance"]
    /\ UNCHANGED <<orchestrator, cache, wire, challengeStatus, twin>>

\* lines 277-283: the balance resolves or throws.
DistributeGetBalance ==
    /\ vault.distribute.pc = "getBalance"
    /\ \/ VaultRespond("distribute", <<EvVaultThrow("getContractBalanceWithUsd")>>, 500)
       \/ \E amount \in UsdAmounts :
             LET balanceUsd == toFixed(amount)
             IN vault' = [vault EXCEPT !.distribute.pc = "updateStatus",
                                       !.distribute.balanceUsd = Some(balanceUsd),
                                       !.distribute.log = @ \o <<EvVaultBalance(amount, balanceUsd)>>]
    /\ UNCHANGED <<orchestrator, cache, wire, challengeStatus, twin>>

\* lines 283-286: the update resolves, and distributeFunds is called, or it throws.
DistributeUpdateStatus ==
    /\ vault.distribute.pc = "updateStatus"
    /\ \/ /\ challengeStatus' =
                updateChallengeStatusAndBalance(Val(vault.distribute.balanceUsd), "EXPIRED")
          /\ VaultGoto("distribute", <<EvVaultUpdate("EXPIRED", TRUE)>>, "distributeFunds")
       \/ /\ VaultRespond("distribute", <<EvVaultUpdate("EXPIRED", FALSE)>>, 500)
          /\ UNCHANGED challengeStatus
    /\ UNCHANGED <<orchestrator, cache, wire, twin>>

\* lines 286-295 and slackNotifier.ts:341-351: distributeFunds binds the
\* contract and sends the transaction, or throws.
DistributeOnChain ==
    /\ vault.distribute.pc = "distributeFunds"
    /\ \/ \E sent \in BOOLEAN :
             VaultRespond("distribute", <<EvVaultChain("distributeFunds", sent, FALSE)>>, 500)
       \/ VaultRespond("distribute", <<EvVaultChain("distributeFunds", TRUE, TRUE)>>, 200)
    /\ UNCHANGED <<orchestrator, cache, wire, challengeStatus, twin>>

\* The secret is configured or not, and the participant has any history.
InitVault ==
    /\ InitProcess /\ challenge.exists /\ challenge.level = "EASY" /\ participant = Some(2)
    /\ wire = NoWire
    /\ challengeStatus = [status |-> "ACTIVE", vault_balance |-> Null]
    /\ vault \in {[NoVault EXCEPT !.index = h] : h \in Histories}
    /\ twin = Null

NextVault ==
    \/ UnlockArrive
    \/ UnlockGetVaultPassword
    \/ UnlockGetBalance
    \/ UnlockGetLastMessages
    \/ UnlockUpdateStatus
    \/ UnlockOnChain
    \/ UnlockStoreCracked
    \/ DistributeArrive
    \/ DistributeGetBalance
    \/ DistributeUpdateStatus
    \/ DistributeOnChain

SpecVault == InitVault /\ [][NextVault]_vars

(***************************************************************************)
(* Two runs of handleStreamData that differ in the challenge's status.     *)
(*                                                                         *)
(* Request 1 runs to its end on the ACTIVE challenge.  The tables are then *)
(* put back as they were when it arrived, the status is set to UNLOCKED or *)
(* EXPIRED (what updateChallengeStatusAndBalance leaves), and request 2    *)
(* runs; `twin` keeps what request 1 did and left.                         *)
(***************************************************************************)
\* The rows of the Messages table without their generated ids.
RowContents(table) ==
    {[conversation_id |-> m.conversation_id, role |-> m.role, content |-> m.content] :
        m \in table}

SecondRun ==
    /\ pc[1] = "done" /\ pc[2] = "idle" /\ IsNull(twin)
    /\ twin' = Some([req |-> req[1], log |-> log[1], challenge |-> challenge,
                     participant |-> participant,
                     rows |-> RowContents(messagesTable),
                     count |-> Cardinality(messagesTable)])
    /\ challenge' = [challenge EXCEPT !.participants_count = 0, !.messages_count = 0]
    /\ participant' = initialBalance
    /\ messagesTable' = {}
    /\ faults' = 0
    /\ \E status \in {"UNLOCKED", "EXPIRED"} :
          challengeStatus' = updateChallengeStatusAndBalance(toFixed(Number(5000)), status)
    /\ UNCHANGED <<config, uuid, pc, req, loc, log, cache, wire, vault>>

NextTwin ==
    \/ SecondRun
    \/ \E r \in Requests :
          \/ Validate(r) /\ (r = 2 => ~IsNull(twin))
          \/ GetChallengeInfo(r)
          \/ GetParticipantBalance(r)
          \/ IsFirstMessage(r)
          \/ IncrementChallengeParticipants(r)
          \/ SaveUserMessage(r)
          \/ IncrementChallengeMessageCount(r)
          \/ DecrementParticipantBalance(r)
          \/ GetVaultPassword(r)
          \/ NotifySlack(r)
          \/ SaveCrackMessage(r)
          \/ FetchAgent1(r)
          \/ SaveEasyMessage(r)
          \/ StreamChunk(r)
          \/ StreamEnd(r)
          \/ StreamFail(r)
          \/ SaveHardMessage(r)
          \/ AwaitUsage(r)

SpecTwin == Init /\ [][NextTwin]_vars

(***************************************************************************)
(* What a request has done, read from its log                              *)
(***************************************************************************)
Done(r) == pc[r] = "done"

\* The request is inside handleUserMessage (lines 123-155).
Accounting(r) ==
    pc[r] \in {"isFirst", "incParticipants", "saveUser", "incMessages", "decBalance"}

\* The balance the request read at CheckBalance, if it got there.
BalanceRead(r) == {log[r][i].balance : i \in Ops(r, "getBalance")}
ReadNoBalance(r) == \E b \in BalanceRead(r) : IsNull(b) \/ Val(b) <= 0
\* The request passed CheckBalance: its message is accepted.
Accepted(r) == \E b \in BalanceRead(r) : ~IsNull(b) /\ Val(b) > 0

Adds(r, attr) == {i \in Ops(r, "add") : log[r][i].attr = attr}
AddsDone(r, attr) == {i \in Adds(r, attr) : log[r][i].ok}
Puts(r, role) == {i \in Ops(r, "put") : log[r][i].role = role}
\* The rows of the Messages table that request r wrote.
RowsOf(r, role) == {m \in messagesTable : m.message_id[1] = r /\ m.role = role}

StoreOps == {"getChallenge", "getBalance", "query", "getPassword", "put", "add"}
StoreFault(r) == \E i \in 1..Len(log[r]) : log[r][i].op \in StoreOps /\ ~log[r][i].ok
\* Some collaborator call of the request failed.
Faulted(r) ==
    \/ StoreFault(r)
    \/ Ops(r, "throw") # {}
    \/ \E i \in Ops(r, "notify") : ~log[r][i].ok

LastEvent(r) == log[r][Len(log[r])]
RejectedWith(r, status) == Done(r) /\ LastEvent(r) = EvJson(status, TRUE)

(***************************************************************************)
(* C1.  A request whose participant record is missing or whose balance     *)
(* read is <= 0 is rejected (status 400) by the step that read the         *)
(* balance, and it has then written no message row, changed no challenge   *)
(* counter and not decremented the balance; no step a request takes up to  *)
(* and including CheckBalance changes any table.                           *)
(***************************************************************************)
C1_Rejected ==
    \A r \in Requests :
        ReadNoBalance(r) =>
            /\ RejectedWith(r, 400)
            /\ Ops(r, "put") = {} /\ Ops(r, "add") = {}
            /\ RowsOf(r, "user") = {} /\ RowsOf(r, "assistant") = {}
            /\ uuid[r] = 0

C1_NoWriteBeforeAccepted ==
    \A r \in Requests :
        (pc[r] \in {"idle", "getChallengeInfo", "getBalance"} /\ pc'[r] # pc[r])
            => UNCHANGED <<challenge, participant, messagesTable>>

C1_InsufficientBalanceRejected == []C1_Rejected /\ [][C1_NoWriteBeforeAccepted]_vars

\* One request rejected for a missing balance, the other for a balance of 0.
C1_Witness ==
    \E r, q \in Requests :
        /\ Null \in BalanceRead(r) /\ RejectedWith(r, 400)
        /\ Some(0) \in BalanceRead(q) /\ RejectedWith(q, 400)

(***************************************************************************)
(* C2.  Two overlapping requests of a participant whose balance is 1 can   *)
(* both read the balance 1 and both decrement it: whenever both have, the  *)
(* stored balance is -1 (C2_Witness is such a state).                      *)
(***************************************************************************)
BothSpentTheLastMessage ==
    /\ initialBalance = Some(1)
    /\ \A r \in Requests : BalanceRead(r) = {Some(1)} /\ AddsDone(r, "balance") # {}

C2_BalanceGoesNegative == BothSpentTheLastMessage => participant = Some(-1)

C2_Witness == BothSpentTheLastMessage /\ participant = Some(-1)

(***************************************************************************)
(* C3.  With no store faults the balance is decremented exactly once per   *)
(* accepted message: a request decrements at most once and only if it      *)
(* passed CheckBalance, an accepted request that has left the accounting   *)
(* step has decremented exactly once whatever it did afterwards, the       *)
(* stored balance is the initial one minus the number of decrements (the   *)
(* number of accepted requests once none is in the accounting step), and   *)
(* no step increases the balance.                                          *)
(***************************************************************************)
NoStoreFault == \A r \in Requests : ~StoreFault(r)
AcceptedRequests == {r \in Requests : Accepted(r)}
Decremented == {r \in Requests : Adds(r, "balance") # {}}

C3_Accounting ==
    NoStoreFault =>
        /\ \A r \in Requests :
              /\ Cardinality(Adds(r, "balance")) <= 1
              /\ Adds(r, "balance") # {} => Accepted(r)
              /\ (Accepted(r) /\ ~Accounting(r)) => Cardinality(Adds(r, "balance")) = 1
        /\ IsNull(initialBalance) => IsNull(participant)
        /\ ~IsNull(initialBalance) =>
              /\ participant = Some(Val(initialBalance) - Cardinality(Decremented))
              /\ (\A r \in Requests : ~Accounting(r)) =>
                    participant = Some(Val(initialBalance) - Cardinality(AcceptedRequests))

C3_NeverIncreased ==
    \/ IsNull(participant) /\ IsNull(participant')
    \/ ~IsNull(participant) /\ ~IsNull(participant') /\ Val(participant') <= Val(participant)

C3_ExactlyOncePerAcceptedMessage == []C3_Accounting /\ [][C3_NeverIncreased]_vars

\* Both requests were accepted; one cracked the vault, the other ended in an
\* error after the accounting; the balance went from 2 to 0.
C3_Witness ==
    /\ NoStoreFault
    /\ initialBalance = Some(2) /\ participant = Some(0)
    /\ \E r, q \in Requests :
          /\ Accepted(r) /\ Done(r) /\ LastEvent(r) = EvEnd
          /\ Accepted(q) /\ Done(q) /\ LastEvent(q).op = "json"

(***************************************************************************)
(* C4.  As stated: every accepted message that has been accounted for has  *)
(* exactly one user row, with an id no other row has, and has incremented  *)
(* messages_count once.                                                    *)
(***************************************************************************)
\* The request has run the save of its user message and the counter update.
UserMessageAccounted(r) ==
    Accepted(r) /\ pc[r] \notin {"getBalance", "isFirst", "incParticipants", "saveUser", "incMessages"}
UniqueIds == \A m, n \in messagesTable : m.message_id = n.message_id => m = n
MessagesCounted == {r \in Requests : AddsDone(r, "messages_count") # {}}

C4_OneRowPerAcceptedMessage ==
    \A r \in Requests :
        UserMessageAccounted(r) =>
            /\ Cardinality(RowsOf(r, "user")) = 1
            /\ \A m \in RowsOf(r, "user") :
                  /\ m.content = Val(loc[r].latestUserMessage)
                  /\ \A n \in messagesTable : n.message_id = m.message_id => n = m
            /\ Cardinality(AddsDone(r, "messages_count")) = 1

(***************************************************************************)
(* C4, amended.  A request puts its user row and updates messages_count    *)
(* once each; ids are unique in the table; when the put succeeded the      *)
(* request has exactly one user row, holding its latest user message, and  *)
(* when the update succeeded the counter went up by exactly one for it     *)
(* (the counter is the number of requests whose update succeeded).         *)
(***************************************************************************)
C4_OneRowPerStoredMessage ==
    /\ UniqueIds
    /\ challenge.messages_count = Cardinality(MessagesCounted)
    /\ \A r \in Requests :
          /\ Puts(r, "user") # {} \/ Adds(r, "messages_count") # {} => Accepted(r)
          /\ UserMessageAccounted(r) =>
                /\ Cardinality(Puts(r, "user")) = 1
                /\ Cardinality(Adds(r, "messages_count")) = 1
                /\ Cardinality(RowsOf(r, "user")) =
                      Cardinality({i \in Puts(r, "user") : log[r][i].ok})
                /\ \A m \in RowsOf(r, "user") : m.content = Val(loc[r].latestUserMessage)

\* Two accepted messages with the same text in the same conversation: two
\* user rows and a counter of 2.
C4_Witness ==
    /\ \A r \in Requests : UserMessageAccounted(r) /\ ~StoreFault(r)
    /\ req[1] = req[2]
    /\ Cardinality({m \in messagesTable : m.role = "user"}) = 2
    /\ challenge.messages_count = 2

(***************************************************************************)
(* C5.  As stated, for sequential delivery: at most one request per        *)
(* conversation id increments participants_count, every accepted message   *)
(* past its first-message step belongs to a conversation that has been     *)
(* counted, and the counter is the number of conversations counted (the    *)
(* first accepted message adds one, a later one adds nothing).             *)
(***************************************************************************)
PastFirstMessageStep(r) == Accepted(r) /\ pc[r] \notin {"getBalance", "isFirst", "incParticipants"}
IncrementedBy(conversation_id) ==
    {r \in Requests : ConvOf(r) = conversation_id /\ AddsDone(r, "participants_count") # {}}
ConversationsCounted == {ConvOf(r) : r \in {q \in Requests : AddsDone(q, "participants_count") # {}}}

SawFirst(r) == \E i \in Ops(r, "query") : log[r][i].isFirst
BothCountedAsFirst ==
    /\ ConvOf(1) = ConvOf(2)
    /\ \A r \in Requests : SawFirst(r) /\ AddsDone(r, "participants_count") # {}

C6_CountedTwice == BothCountedAsFirst => challenge.participants_count = 2

C6_FirstMeansNoRowYet ==
    \A r \in Requests :
        (pc[r] = "isFirst" /\ pc'[r] = "incParticipants") => ConversationRows(ConvOf(r)) = {}

C6_DoubleIncrement == []C6_CountedTwice /\ [][C6_FirstMeansNoRowYet]_vars

C6_Witness ==
    /\ BothCountedAsFirst
    /\ challenge.participants_count = 2
    /\ Cardinality({ConvOf(m) : m \in Requests}) = 1

(***************************************************************************)
(* The response and the agent calls of a request, read from its log        *)
(***************************************************************************)
LatestOf(r) == Val(loc[r].latestUserMessage)
\* The request has passed the crack check of line 583 (or left before it).
PastCrackCheck(r) ==
    Accepted(r) /\ pc[r] \notin {"getBalance", "isFirst", "incParticipants", "saveUser",
                                 "incMessages", "decBalance", "getPassword"}
\* The latest user message contains the configured, non-empty secret.
ContainsSecret(r) == vaultPassword # <<>> /\ Includes(LatestOf(r), vaultPassword)
NotContainsSecret(r) == ~Includes(LatestOf(r), vaultPassword)

Frame(text) == <<"0", ":", "QUOTE">> \o EscapeText(text) \o <<"QUOTE", "NL">>
\* The response is exactly one framed fragment holding text, then the end.
OneFragment(r, text) ==
    /\ Cardinality(Ops(r, "write")) = 1
    /\ \A i \in Ops(r, "write") : log[r][i].bytes = Frame(text)
    /\ LastEvent(r) = EvEnd
\* Exactly one assistant message is stored for the request, holding text.
OneAssistantMessage(r, text) ==
    /\ Cardinality(Puts(r, "assistant")) = 1
    /\ Cardinality(RowsOf(r, "assistant")) = 1
    /\ \A m \in RowsOf(r, "assistant") : m.content = text /\ m.conversation_id = ConvOf(r)
NoAgentCalled(r) == Ops(r, "agent1") = {} /\ Ops(r, "agent2") = {}
Agent1Text(r) == {log[r][i].text : i \in Ops(r, "agent1Return")}

(***************************************************************************)
(* C7.  As stated, for requests none of whose store calls failed: if the   *)
(* latest user message of an accepted, finished request contains the       *)
(* configured non-empty secret, the response is exactly one framed         *)
(* fragment holding the fixed crack message, exactly one assistant message *)
(* with that text is stored, and no agent was called.                      *)
(***************************************************************************)
C7_CrackedResponse ==
    \A r \in Requests :
        (Done(r) /\ Accepted(r) /\ ~StoreFault(r) /\ ContainsSecret(r)) =>
            /\ OneFragment(r, finalRewardMsg)
            /\ OneAssistantMessage(r, finalRewardMsg)
            /\ NoAgentCalled(r)

\* What does hold: the same, when the notification did not fail; and no
\* agent is called on the cracked path at any time.
C7_CrackedResponseIfNotified ==
    \A r \in Requests :
        (PastCrackCheck(r) /\ ~StoreFault(r) /\ ContainsSecret(r)) =>
            /\ NoAgentCalled(r)
            /\ (Done(r) /\ ~Faulted(r)) =>
                  OneFragment(r, finalRewardMsg) /\ OneAssistantMessage(r, finalRewardMsg)

\* A cracked request answered with the reward message after a notification.
C7_Witness ==
    \E r \in Requests :
        /\ Done(r) /\ Accepted(r) /\ ContainsSecret(r) /\ ~Faulted(r)
        /\ Ops(r, "notify") # {}
        /\ OneFragment(r, finalRewardMsg) /\ OneAssistantMessage(r, finalRewardMsg)

(***************************************************************************)
(* C8.  As stated, for requests none of whose store calls failed: an       *)
(* accepted request past the crack check whose latest user message does    *)
(* not contain the configured secret has called the primary agent.         *)
(***************************************************************************)
C8_AgentInvoked ==
    \A r \in Requests :
        (PastCrackCheck(r) /\ ~StoreFault(r) /\ NotContainsSecret(r)) => Ops(r, "agent1") # {}

(***************************************************************************)
(* C8, amended: such a request has called the primary agent exactly once   *)
(* if the challenge level is EASY or HARD and the secret was read; with    *)
(* any other level it is answered 400, and with a failed read of the       *)
(* secret 500, without an agent call.                                      *)
(***************************************************************************)
SecretRead(r) == \E i \in Ops(r, "getPassword") : log[r][i].ok

C8_AgentInvokedOnKnownLevel ==
    \A r \in Requests :
        (PastCrackCheck(r) /\ NotContainsSecret(r)) =>
            /\ (SecretRead(r) /\ challenge.level \in {"EASY", "HARD"}) =>
                  Cardinality(Ops(r, "agent1")) = 1
            /\ (SecretRead(r) /\ challenge.level \notin {"EASY", "HARD"}) =>
                  NoAgentCalled(r) /\ RejectedWith(r, 400)
            /\ ~SecretRead(r) => NoAgentCalled(r) /\ RejectedWith(r, 500)

\* A finished request on a HARD challenge that called the primary agent once.
C8_Witness ==
    \E r \in Requests :
        /\ PastCrackCheck(r) /\ NotContainsSecret(r) /\ SecretRead(r)
        /\ challenge.level = "HARD"
        /\ Cardinality(Ops(r, "agent1")) = 1
        /\ Done(r)

(***************************************************************************)
(* C9.  As stated: on an EASY challenge an accepted, finished request      *)
(* whose message does not contain the (configured) secret has made exactly *)
(* one call of the primary agent and none of the secondary, its response   *)
(* is one framed fragment holding the primary agent's text, exactly one    *)
(* assistant message equal to that text is stored, and it has one user     *)
(* row; if it is the only accepted request the balance is n - 1.           *)
(***************************************************************************)
EasyOutcome(r) ==
    /\ Cardinality(Ops(r, "agent1")) = 1 /\ Ops(r, "agent2") = {}
    /\ Cardinality(Agent1Text(r)) = 1
    /\ \A text \in Agent1Text(r) : OneFragment(r, text) /\ OneAssistantMessage(r, text)
    /\ Cardinality(RowsOf(r, "user")) = 1
    /\ AcceptedRequests = {r} => participant = Some(Val(initialBalance) - 1)

EasyRequest(r) ==
    /\ Done(r) /\ Accepted(r)
    /\ challenge.level = "EASY"
    /\ vaultPassword # <<>> /\ NotContainsSecret(r)

RECURSIVE ChunkTexts(_)
ChunkTexts(l) ==
    IF l = <<>> THEN <<>>
    ELSE (IF Head(l).op = "chunk" THEN <<Head(l).text>> ELSE <<>>) \o ChunkTexts(Tail(l))

SecondaryAfterPrimary(r) ==
    \A i \in Ops(r, "agent2") :
        \E j \in Ops(r, "agent1Return") :
            /\ j < i
            /\ \A k \in Ops(r, "agent1") : k < j
            /\ log[r][i].lastTurn = log[r][j].text

HardOutcome(r) ==
    /\ Cardinality(Ops(r, "agent1")) = 1 /\ Cardinality(Ops(r, "agent2")) = 1
    /\ OneAssistantMessage(r, Concat(ChunkTexts(log[r])))

HardRequest(r) ==
    /\ Done(r) /\ Accepted(r)
    /\ challenge.level = "HARD"
    /\ vaultPassword # <<>> /\ NotContainsSecret(r)

RECURSIVE WriteSeq(_)
WriteSeq(l) ==
    IF l = <<>> THEN <<>>
    ELSE (IF Head(l).op = "write" THEN <<Head(l).bytes>> ELSE <<>>) \o WriteSeq(Tail(l))

Framed(texts) == [i \in 1..Len(texts) |-> Frame(texts[i])]

HardGeneration(r) ==
    Accepted(r) /\ challenge.level = "HARD" /\ ~ContainsSecret(r)

C11_FragmentsForwardedInOrder ==
    \A r \in Requests :
        HardGeneration(r) =>
            /\ WriteSeq(log[r]) = Framed(ChunkTexts(log[r]))
            /\ \A i \in Ops(r, "chunk") :
                  i < Len(log[r]) /\ log[r][i + 1] = EvWrite(Frame(log[r][i].text))
            /\ \A text \in Agent1Text(r) : \A i \in Ops(r, "write") :
                  log[r][i].bytes # Frame(text)
            /\ Ops(r, "chunk") # {} => Ops(r, "agent2") # {}

\* Two fragments were produced and written, in that order, and the stream ended.
C11_Witness ==
    \E r \in Requests :
        /\ HardGeneration(r) /\ Done(r)
        /\ Agent1Text(r) # {}
        /\ WriteSeq(log[r]) = <<Frame(Fragments[1]), Frame(Fragments[2])>>

(***************************************************************************)
(* C12.  In every reachable state of the cache, whatever the overlap of    *)
(* getContractForChallenge calls for equal or different challenge ids,     *)
(* contractCache holds at most MAX_CONTRACTS bindings, one per id.         *)
(***************************************************************************)
C12_AtMostMaxContracts ==
    /\ Len(contractCache) <= MAX_CONTRACTS
    /\ Cardinality(CachedIds(contractCache)) = Len(contractCache)

\* Two misses overlapped on a cache of two: the call that started first
\* finished last, found the cache full and evicted an entry.
C12_Witness ==
    \E c, q \in Callers :
        /\ call[c].n + 1 = call[q].n
        /\ call[c].pc = "idle" /\ call[c].evicted # {}
        /\ \E e \in Entries(contractCache) : e.contract = <<call[q].challengeId, call[q].n>>
        /\ Len(contractCache) = MAX_CONTRACTS

(***************************************************************************)
(* C13.  When a get for an id that is not cached succeeds while the cache  *)
(* holds 3 entries with distinct last-used timestamps, exactly one entry   *)
(* is evicted, the one with the smallest timestamp; the other two entries  *)
(* are kept as they are and the new id is inserted with the new binding.   *)
(***************************************************************************)
DistinctTimestamps(c_) ==
    \A i, j \in 1..Len(c_) : c_[i].lastUsed = c_[j].lastUsed => i = j
\* Caller c's lookup returns a good row in this step.
Inserts(c) == call[c].pc = "lookup" /\ call'[c].pc = "idle" /\ ~IsNull(call'[c].returned)

C13_InsertEvictsOldest ==
    \A c \in Callers :
        ( /\ Inserts(c)
          /\ Len(contractCache) = MAX_CONTRACTS
          /\ DistinctTimestamps(contractCache)
          /\ call[c].challengeId \notin CachedIds(contractCache) )
        => \E old \in Entries(contractCache) :
              /\ \A e \in Entries(contractCache) : e # old => old.lastUsed < e.lastUsed
              /\ Entries(contractCache') \cap Entries(contractCache)
                    = Entries(contractCache) \ {old}
              /\ Len(contractCache') = MAX_CONTRACTS
              /\ \E new \in Entries(contractCache') :
                    /\ new.challengeId = call[c].challengeId
                    /\ new.lastUsed = clock
                    /\ call'[c].returned = Some(new.contract)
                    /\ new \notin Entries(contractCache)

C13_EvictsLeastRecentlyUsed == [][C13_InsertEvictsOldest]_vars

\* "a", "b", "c" were cached at times 0, 1, 2; the get of "d" evicted "a".
C13_Witness ==
    \E c \in Callers :
        /\ call[c].challengeId = "d" /\ call[c].pc = "idle" /\ ~IsNull(call[c].returned)
        /\ \E e \in call[c].evicted : e.challengeId = "a" /\ e.lastUsed = 0
        /\ Cardinality(call[c].evicted) = 1
        /\ CachedIds(contractCache) = {"b", "c", "d"}
        /\ Entry(contractCache, "b").lastUsed = 1
        /\ Entry(contractCache, "c").lastUsed = 2

(***************************************************************************)
(* C14.  A get for an id that is cached sets the entry's last-used         *)
(* timestamp to the current time and returns the stored binding in the     *)
(* same step; it evicts nothing, issues no metadata lookup, and leaves the *)
(* cached ids, their order and every other entry unchanged.                *)
(***************************************************************************)
Hits(c) == call'[c].n # call[c].n /\ call[c].challengeId' \in CachedIds(contractCache)

C14_HitStep ==
    \A c \in Callers :
        Hits(c) =>
            LET id == call'[c].challengeId
                i == IndexOf(contractCache, id)
            IN /\ call'[c].pc = "idle" /\ ~call'[c].lookedUp
               /\ call'[c].returned = Some(contractCache[i].contract)
               /\ Len(contractCache') = Len(contractCache)
               /\ contractCache'[i] = [contractCache[i] EXCEPT !.lastUsed = clock]
               /\ \A j \in 1..Len(contractCache) : j # i => contractCache'[j] = contractCache[j]
               /\ \A q \in Callers : q # c => call'[q] = call[q]

C14_HitRefreshesOnly == [][C14_HitStep]_vars

\* A full cache whose oldest entry was hit at a later time and kept.
C14_Witness ==
    \E c \in Callers :
        /\ call[c].hit /\ ~call[c].lookedUp /\ call[c].evicted = {}
        /\ Len(contractCache) = MAX_CONTRACTS
        /\ contractCache[1].challengeId = call[c].challengeId
        /\ contractCache[1].lastUsed = clock /\ contractCache[2].lastUsed < clock
        /\ call[c].returned = Some(contractCache[1].contract)

(***************************************************************************)
(* C15.  As stated: a request whose notification call failed has, once it  *)
(* has ended, stored the crack message as an assistant message, written    *)
(* it to the caller in one framed fragment and ended the stream.           *)
(***************************************************************************)
NotificationFailed(r) == \E i \in Ops(r, "notify") : ~log[r][i].ok

C15_NotificationBestEffort ==
    \A r \in Requests :
        (Done(r) /\ NotificationFailed(r)) =>
            /\ \E i \in Puts(r, "assistant") : log[r][i].content = finalRewardMsg
            /\ OneFragment(r, finalRewardMsg)

\* What the code does: the request ends with a JSON 500 and nothing stored.
C15_Witness ==
    \E r \in Requests :
        /\ Done(r) /\ NotificationFailed(r)
        /\ LastEvent(r) = EvJson(500, TRUE)
        /\ Puts(r, "assistant") = {} /\ Ops(r, "write") = {}
        /\ AddsDone(r, "balance") # {}

(***************************************************************************)
(* C16.  A request that fails validation (messages not an array or empty,  *)
(* no turn with role user, challenge id or participant id missing) never   *)
(* gets past the validation: none of its steps changes a table, it writes  *)
(* no row, changes no counter, does not decrement the balance and calls no *)
(* agent, and when it has ended it has got a JSON error and nothing else.  *)
(***************************************************************************)
Arrived(r) == pc[r] # "idle"
NoUserTurn(messages) == \A i \in 1..Len(messages) : messages[i].role # "user"
FailsValidation(r) ==
    /\ Arrived(r)
    /\ \/ ~req[r].payload.isArray
       \/ req[r].payload.messages = <<>>
       \/ NoUserTurn(req[r].payload.messages)
       \/ ~req[r].challenge_id
       \/ ~req[r].participant_id

C16_Rejected ==
    \A r \in Requests :
        FailsValidation(r) =>
            /\ pc[r] \in {"getChallengeInfo", "done"}
            /\ Ops(r, "put") = {} /\ Ops(r, "add") = {} /\ uuid[r] = 0
            /\ NoAgentCalled(r) /\ Ops(r, "write") = {} /\ Ops(r, "notify") = {}
            /\ Done(r) => /\ LastEvent(r).op = "json" /\ LastEvent(r).sent
                          /\ LastEvent(r).status \in {400, 500}
                          /\ Cardinality(Ops(r, "json")) = 1

C16_NoSideEffect ==
    \A r \in Requests :
        (pc'[r] # pc[r] /\ pc'[r] # "idle"
         /\ (\/ ~req'[r].payload.isArray
             \/ req'[r].payload.messages = <<>>
             \/ NoUserTurn(req'[r].payload.messages)
             \/ ~req'[r].challenge_id
             \/ ~req'[r].participant_id))
        => UNCHANGED <<challenge, participant, messagesTable, uuid>>

C16_ValidationFailureHasNoSideEffect == []C16_Rejected /\ [][C16_NoSideEffect]_vars

\* One request without an array of messages, one whose only turn is the
\* assistant's: both refused with status 400.
C16_Witness ==
    \E r, q \in Requests :
        /\ Arrived(r) /\ ~req[r].payload.isArray /\ RejectedWith(r, 400)
        /\ Arrived(q) /\ req[q].payload.isArray /\ req[q].payload.messages # <<>>
        /\ NoUserTurn(req[q].payload.messages)
        /\ RejectedWith(q, 400) /\ Ops(q, "getChallenge") # {}

(***************************************************************************)
(* C17.  A request whose read of the secret gives the empty string (none   *)
(* configured, no row, or a failed read) ends with a JSON 500 in that      *)
(* step: it is not taken as a guess, so it gets no crack message, no       *)
(* notification is sent, no agent is called and no assistant message is    *)
(* stored.                                                                 *)
(***************************************************************************)
NoSecret(r) == \E i \in Ops(r, "getPassword") : log[r][i].password = <<>>

C17_NoSecretIsFatal ==
    \A r \in Requests :
        NoSecret(r) =>
            /\ RejectedWith(r, 500)
            /\ Cardinality(Ops(r, "json")) = 1
            /\ NoAgentCalled(r) /\ Ops(r, "notify") = {}
            /\ Ops(r, "write") = {} /\ Ops(r, "end") = {}
            /\ Puts(r, "assistant") = {} /\ RowsOf(r, "assistant") = {}

\* No secret configured: one request read that, the other's read failed.
C17_Witness ==
    \E r, q \in Requests :
        /\ vaultPassword = <<>>
        /\ NoSecret(r) /\ ~StoreFault(r) /\ RejectedWith(r, 500)
        /\ \E i \in Ops(q, "getPassword") : ~log[q][i].ok
        /\ RejectedWith(q, 500)

(***************************************************************************)
(* C18.  On a challenge whose level is neither EASY nor HARD an accepted   *)
(* request past the crack check whose message does not contain the secret  *)
(* has ended with exactly one JSON error response; no fragment was         *)
(* written, no agent was called and no assistant message was stored.       *)
(***************************************************************************)
C18_UnknownLevelIsTerminal ==
    \A r \in Requests :
        (PastCrackCheck(r) /\ NotContainsSecret(r) /\ challenge.level \notin {"EASY", "HARD"}) =>
            /\ Done(r)
            /\ Cardinality(Ops(r, "json")) = 1
            /\ LastEvent(r).op = "json" /\ LastEvent(r).sent
            /\ LastEvent(r).status \in {400, 500}
            /\ Ops(r, "write") = {} /\ Ops(r, "end") = {}
            /\ NoAgentCalled(r)
            /\ Puts(r, "assistant") = {} /\ RowsOf(r, "assistant") = {}

\* A request on a MEDIUM challenge refused with status 400 after its accounting.
C18_Witness ==
    \E r \in Requests :
        /\ PastCrackCheck(r) /\ NotContainsSecret(r) /\ SecretRead(r)
        /\ challenge.level = "MEDIUM"
        /\ RejectedWith(r, 400)
        /\ AddsDone(r, "balance") # {}

(***************************************************************************)
(* C19.  As stated: a request in which a collaborator threw (the primary   *)
(* agent, the secondary agent's stream at any fragment or its usage, the   *)
(* notification) has ended with exactly one JSON error response of status  *)
(* 500 that was delivered to the caller.                                   *)
(***************************************************************************)
Threw(r) == Ops(r, "throw") # {} \/ NotificationFailed(r)

C19_FaultsReportedOnce ==
    \A r \in Requests :
        Threw(r) =>
            /\ Done(r)
            /\ Cardinality(Ops(r, "json")) = 1
            /\ LastEvent(r) = EvJson(500, TRUE)

\* What does hold: the fault is caught and the request is over; the JSON
\* 500 is delivered exactly when nothing had been written before the fault.
C19_FaultsCaught ==
    \A r \in Requests :
        Threw(r) =>
            /\ Done(r)
            /\ Cardinality(Ops(r, "json")) = 1
            /\ LastEvent(r) = EvJson(500, Ops(r, "write") = {})
            /\ Ops(r, "end") = {}

\* The stream failed after its first fragment: the caller has the fragment
\* and neither a JSON error nor the end of the stream.
C19_Witness ==
    \E r \in Requests :
        /\ Threw(r) /\ Done(r)
        /\ Cardinality(Ops(r, "write")) = 1
        /\ LastEvent(r) = EvJson(500, FALSE)

(***************************************************************************)
(* C20.  As stated: a request that has ended in failure has got a single   *)
(* JSON error, delivered, whose status is 400 for malformed or missing     *)
(* input and for an insufficient balance, and 500 for a missing secret,    *)
(* missing challenge data and internal faults, a failed read of the        *)
(* balance being an internal fault.                                        *)
(***************************************************************************)
Failed(r) == Done(r) /\ (Ops(r, "json") # {} \/ Threw(r))
ReadFailed(r, op) == \E i \in Ops(r, op) : ~log[r][i].ok
\* The status the failure's class calls for.
StatusOfClass(r) ==
    IF Ops(r, "getChallenge") = {} THEN 400
    ELSE IF \E i \in Ops(r, "getChallenge") : ~log[r][i].found THEN 500
    ELSE IF Ops(r, "getBalance") = {} THEN 400
    ELSE IF ReadFailed(r, "getBalance") THEN 500
    ELSE IF ~Accepted(r) THEN 400
    ELSE IF NoSecret(r) THEN 500
    ELSE IF Threw(r) THEN 500
    ELSE 400

C20_StatusByFailureClass ==
    \A r \in Requests :
        Failed(r) =>
            /\ Cardinality(Ops(r, "json")) = 1
            /\ LastEvent(r) = EvJson(StatusOfClass(r), TRUE)

\* A failed read of the balance answered with status 400.
C20_Witness ==
    \E r \in Requests :
        /\ Failed(r) /\ ReadFailed(r, "getBalance")
        /\ ~IsNull(participant) /\ Val(participant) > 0
        /\ LastEvent(r) = EvJson(400, TRUE)

(***************************************************************************)
(* C21.  As stated: a request that ended its stream has put its assistant  *)
(* message exactly once, after every fragment write of the request and     *)
(* before the stream was closed.                                           *)
(***************************************************************************)
Replied(r) == Done(r) /\ LastEvent(r) = EvEnd

C21_PersistedAfterLastFragment ==
    \A r \in Requests :
        Replied(r) =>
            /\ Cardinality(Puts(r, "assistant")) = 1
            /\ \A i \in Puts(r, "assistant") :
                  /\ \A j \in Ops(r, "write") : j < i
                  /\ \A k \in Ops(r, "end") : i < k

(***************************************************************************)
(* C21, amended.  A request puts its assistant message at most once, and   *)
(* exactly once before it closes the stream; the put comes after the       *)
(* generation (after the primary agent returned and after every fragment   *)
(* the secondary agent yielded).  On the HARD path the put follows every   *)
(* fragment write; on the cracked and EASY paths the put comes first and   *)
(* the single fragment write follows it directly.  The stored rows are     *)
(* those of the puts that succeeded.                                       *)
(***************************************************************************)
C21_PersistedOncePerReply ==
    \A r \in Requests :
        /\ Cardinality(Puts(r, "assistant")) <= 1
        /\ Cardinality(RowsOf(r, "assistant")) =
              Cardinality({i \in Puts(r, "assistant") : log[r][i].ok})
        /\ Ops(r, "end") # {} => Puts(r, "assistant") # {}
        /\ \A i \in Puts(r, "assistant") :
              /\ \A k \in Ops(r, "end") : i < k
              /\ \A g \in Ops(r, "agent1Return") \cup Ops(r, "chunk") : g < i
              /\ IF HardGeneration(r)
                 THEN \A j \in Ops(r, "write") : j < i
                 ELSE Ops(r, "write") = {i + 1}

\* On a HARD challenge one request streamed every fragment, stored the text
\* and closed the stream; the other cracked the vault and closed its stream.
C21_Witness ==
    \E r, q \in Requests :
        /\ HardRequest(r) /\ Replied(r)
        /\ Cardinality(Ops(r, "write")) = MaxFragments
        /\ Accepted(q) /\ ContainsSecret(q) /\ Replied(q)
        /\ Cardinality(RowsOf(r, "assistant")) = 1
        /\ Cardinality(RowsOf(q, "assistant")) = 1

(***************************************************************************)
(* C22.  As stated: a request completes its response at most once (one     *)
(* delivered JSON error or one stream close, never both and never two),    *)
(* and once a fragment has been written or the stream closed, no JSON      *)
(* response is attempted and nothing is written after the close.           *)
(***************************************************************************)
Completions(r) ==
    {i \in Ops(r, "json") : log[r][i].sent} \cup Ops(r, "end")

C22_CompletedAtMostOnce ==
    \A r \in Requests :
        /\ Cardinality(Completions(r)) <= 1
        /\ \A i \in Ops(r, "write") \cup Ops(r, "end") :
              \A j \in Ops(r, "json") : j < i
        /\ \A e \in Ops(r, "end") :
              \A w \in Ops(r, "write") : w < e

\* What the code does: the catch of lines 685-688 attempts the JSON error
\* after every fragment was written and the assistant message stored.
C22_Witness ==
    \E r \in Requests :
        /\ Done(r)
        /\ Cardinality(Ops(r, "write")) = MaxFragments
        /\ Puts(r, "assistant") # {}
        /\ \E j \in Ops(r, "json") : \A w \in Ops(r, "write") : w < j
        /\ Completions(r) = {}

(***************************************************************************)
(* C23.  The accounting sub-steps of an accepted message are best-effort.  *)
(* A request that has left the accounting step has attempted every         *)
(* sub-step exactly once and in order, whatever failed (the first-message  *)
(* query, the participant increment if and only if the query answered      *)
(* true, the put of the user message, the message counter, the balance),   *)
(* threw nothing on the way and went on to read the secret.  No step of    *)
(* the accounting ends the request, removes a stored row or lowers a       *)
(* counter, and a failed step leaves every table as it was.                *)
(***************************************************************************)
PastAccounting(r) ==
    Accepted(r) /\ ~Accounting(r) /\ pc[r] # "getBalance"

AccountingFault(r) ==
    \E i \in Ops(r, "query") \cup Puts(r, "user") \cup Ops(r, "add") : ~log[r][i].ok

C23_SubStepsAttempted ==
    \A r \in Requests :
        PastAccounting(r) =>
            /\ Cardinality(Ops(r, "query")) = 1
            /\ Cardinality(Puts(r, "user")) = 1
            /\ Cardinality(Adds(r, "messages_count")) = 1
            /\ Cardinality(Adds(r, "balance")) = 1
            /\ \A q \in Ops(r, "query") :
                  /\ Cardinality(Adds(r, "participants_count")) =
                        (IF log[r][q].isFirst THEN 1 ELSE 0)
                  /\ \A p \in Adds(r, "participants_count") : q < p
                  /\ \A u \in Puts(r, "user") :
                        /\ q < u
                        /\ \A p \in Adds(r, "participants_count") : p < u
                        /\ \A m \in Adds(r, "messages_count") :
                              /\ u < m
                              /\ \A b \in Adds(r, "balance") :
                                    /\ m < b
                                    /\ \A t \in Ops(r, "throw") \cup Ops(r, "json") : b < t
            /\ pc[r] = "getPassword" \/ Ops(r, "getPassword") # {}

C23_FaultSwallowed ==
    \A r \in Requests :
        (Accounting(r) /\ pc'[r] # pc[r]) =>
            /\ pc'[r] \in {"incParticipants", "saveUser", "incMessages", "decBalance",
                           "getPassword"}
            /\ messagesTable \subseteq messagesTable'
            /\ challenge'.participants_count >= challenge.participants_count
            /\ challenge'.messages_count >= challenge.messages_count
            /\ faults' # faults => UNCHANGED <<challenge, participant, messagesTable>>

C23_AccountingBestEffort == []C23_SubStepsAttempted /\ [][C23_FaultSwallowed]_vars

\* The put of the user message failed; the counter and the balance were
\* updated all the same and the request streamed its reply.
C23_Witness ==
    \E r \in Requests :
        /\ Replied(r) /\ Ops(r, "write") # {}
        /\ \E i \in Puts(r, "user") : ~log[r][i].ok
        /\ RowsOf(r, "user") = {}
        /\ AddsDone(r, "messages_count") # {} /\ AddsDone(r, "balance") # {}

(***************************************************************************)
(* C24.  A request whose first-message query failed got the answer false:  *)
(* it never enters the participant increment and never updates             *)
(* participants_count, the step after the failed query is the put of the   *)
(* user message (nothing is thrown), and the remaining sub-steps are       *)
(* attempted.  participants_count is the number of requests whose          *)
(* increment succeeded, every one of which had a successful query that     *)
(* found no row: a failed query adds nothing to the counter.               *)
(***************************************************************************)
LookupFailed(r) == \E i \in Ops(r, "query") : ~log[r][i].ok

ParticipantsCounted == {r \in Requests : AddsDone(r, "participants_count") # {}}

C24_LookupFaultCountsNothing ==
    /\ challenge.participants_count = Cardinality(ParticipantsCounted)
    /\ \A r \in ParticipantsCounted :
          \A i \in Ops(r, "query") : log[r][i].ok /\ log[r][i].isFirst
    /\ \A r \in Requests :
          LookupFailed(r) =>
              /\ \A i \in Ops(r, "query") : ~log[r][i].isFirst
              /\ Adds(r, "participants_count") = {}
              /\ pc[r] \notin {"isFirst", "incParticipants"}
              /\ \A i \in Ops(r, "query") :
                    i < Len(log[r]) => log[r][i + 1].op = "put" /\ log[r][i + 1].role = "user"
              /\ PastAccounting(r) =>
                    /\ Cardinality(Puts(r, "user")) = 1
                    /\ Cardinality(Adds(r, "messages_count")) = 1
                    /\ Cardinality(Adds(r, "balance")) = 1

\* The query of the only accepted message of the conversation failed: the
\* message is stored and counted, the balance is spent, the reply is
\* streamed, and the conversation is not counted as a participant.
C24_Witness ==
    \E r \in Requests :
        /\ LookupFailed(r) /\ Replied(r)
        /\ RowsOf(r, "user") # {}
        /\ AddsDone(r, "messages_count") # {} /\ AddsDone(r, "balance") # {}
        /\ challenge.participants_count = 0
        /\ \A q \in Requests : q # r => ~Accepted(q) /\ Done(q)

(***************************************************************************)
(* C25.  A miss that cannot build a binding throws: the step that ends the *)
(* lookup without a binding leaves the contract cache exactly as it was    *)
(* (no entry added, none removed, no timestamp changed), evicts nothing    *)
(* and touches no other call; the caller is left without a binding, and a  *)
(* binding a call does return is always one built for the id it asked for. *)
(***************************************************************************)
FailsMiss(c) ==
    call[c].pc = "lookup" /\ call'[c].pc = "idle" /\ IsNull(call'[c].returned)

FailedMiss(c) ==
    call[c].lookedUp /\ call[c].pc = "idle" /\ IsNull(call[c].returned)

C25_FailedMissStep ==
    \A c \in Callers :
        FailsMiss(c) =>
            /\ contractCache' = contractCache
            /\ call'[c].evicted = {}
            /\ \A q \in Callers \ {c} : call'[q] = call[q]

C25_NoFallback ==
    \A c \in Callers :
        /\ ~IsNull(call[c].returned) => Val(call[c].returned)[1] = call[c].challengeId
        /\ FailedMiss(c) => call[c].challengeId \notin
              {e.challengeId : e \in {x \in Entries(contractCache) : x.contract[2] = call[c].n}}

C25_FailedMissChangesNothing == []C25_NoFallback /\ [][C25_FailedMissStep]_vars

\* A lookup failed while the cache was full of other challenges' bindings.
C25_Witness ==
    \E c \in Callers :
        /\ FailedMiss(c)
        /\ Len(contractCache) = MAX_CONTRACTS
        /\ call[c].challengeId \notin CachedIds(contractCache)

(***************************************************************************)
(* C28.  Two gets for the same uncached id can overlap at the lookup, and  *)
(* each then builds its own binding and inserts it.  Every inserting step  *)
(* leaves exactly one entry for its id, holding the binding that step      *)
(* built (the last insertion wins), and changes nothing of the other call: *)
(* the call that inserted first keeps the binding it built, which differs  *)
(* from the one the other call built.                                      *)
(***************************************************************************)
EntriesOf(c_, challengeId) == {i \in 1..Len(c_) : c_[i].challengeId = challengeId}

CompletedMiss(c) ==
    call[c].lookedUp /\ call[c].pc = "idle" /\ ~IsNull(call[c].returned)

C28_InsertStep ==
    \A c \in Callers :
        Inserts(c) =>
            LET id == call[c].challengeId IN
                /\ Cardinality(EntriesOf(contractCache', id)) = 1
                /\ Entry(contractCache', id).contract = Val(call'[c].returned)
                /\ \A q \in Callers \ {c} : call'[q] = call[q]

C28_OwnBindings ==
    \A c, q \in Callers :
        (c # q /\ CompletedMiss(c) /\ CompletedMiss(q)) =>
            /\ call[c].returned # call[q].returned
            /\ Val(call[c].returned) = <<call[c].challengeId, call[c].n>>

C28_LastWriteWins == []C28_OwnBindings /\ [][C28_InsertStep]_vars

\* Both calls missed on the same id, one right after the other; both built
\* and inserted; the cache holds one entry for the id, with the binding of
\* the call that started first and therefore inserted last, while the other
\* call holds the binding it built.
C28_Witness ==
    \E c, q \in Callers :
        /\ call[c].n + 1 = call[q].n
        /\ call[c].challengeId = call[q].challengeId
        /\ CompletedMiss(c) /\ CompletedMiss(q)
        /\ Cardinality(EntriesOf(contractCache, call[c].challengeId)) = 1
        /\ Entry(contractCache, call[c].challengeId).contract = Val(call[c].returned)
        /\ call[q].returned # call[c].returned

(***************************************************************************)
(* C29.  An id that is cached stops being cached only in the inserting     *)
(* step of a miss that found at least MAX_CONTRACTS entries, and then      *)
(* exactly one id goes.  A hit, a failed miss, the start of a miss and an  *)
(* insertion into a cache below capacity remove no id, and the binding     *)
(* stored under an id changes only in an inserting step for that same id.  *)
(***************************************************************************)
Evicted(c_, d_) == CachedIds(c_) \ CachedIds(d_)

C29_EvictionStep ==
    /\ Evicted(contractCache, contractCache') # {} =>
          /\ Cardinality(Evicted(contractCache, contractCache')) = 1
          /\ Len(contractCache) >= MAX_CONTRACTS
          /\ \E c \in Callers :
                /\ Inserts(c)
                /\ {e.challengeId : e \in call'[c].evicted} =
                      Evicted(contractCache, contractCache')
    /\ \A id \in CachedIds(contractCache) \cap CachedIds(contractCache') :
          Entry(contractCache', id).contract # Entry(contractCache, id).contract =>
              \E c \in Callers : Inserts(c) /\ call[c].challengeId = id

C29_LeavesOnlyByEviction == [][C29_EvictionStep]_vars

\* An insertion found the cache full and evicted one id, which is no longer
\* cached; the inserted id is, and the cache is full again.
C29_Witness ==
    \E c \in Callers :
        /\ CompletedMiss(c) /\ Cardinality(call[c].evicted) = 1
        /\ \A e \in call[c].evicted : e.challengeId \notin CachedIds(contractCache)
        /\ call[c].challengeId \in CachedIds(contractCache)
        /\ Len(contractCache) = MAX_CONTRACTS

(***************************************************************************)
(* C27.  As stated: every request that closed its stream has written at    *)
(* least one framed fragment to the caller before the close.               *)
(***************************************************************************)
C27_SuccessHasFragment ==
    \A r \in Requests :
        Replied(r) => \E w \in Ops(r, "write") : \A e \in Ops(r, "end") : w < e

\* What the code does on HARD when the secondary agent's stream ends before
\* its first fragment: an empty assistant message is stored and the stream
\* is closed with nothing written.
C27_Witness ==
    \E r \in Requests :
        /\ HardRequest(r) /\ Replied(r)
        /\ Ops(r, "agent2") # {} /\ Ops(r, "chunk") = {}
        /\ Ops(r, "write") = {}
        /\ \E i \in Puts(r, "assistant") : log[r][i].content = <<>>

(***************************************************************************)
(* C30.  A request whose challenge metadata was not found, or whose        *)
(* metadata lookup failed, ends with a single JSON 500 in that step: it    *)
(* never reads the balance, puts no message, updates no counter and no     *)
(* balance, and draws no message id, whatever the participant's balance;   *)
(* while the challenge does not exist no table ever changes.               *)
(***************************************************************************)
ChallengeNotFound(r) == \E i \in Ops(r, "getChallenge") : ~log[r][i].found

C30_NoChallengeIs500 ==
    /\ \A r \in Requests :
          ChallengeNotFound(r) =>
              /\ RejectedWith(r, 500)
              /\ Cardinality(Ops(r, "json")) = 1
              /\ log[r][Len(log[r]) - 1].op = "getChallenge"
              /\ Ops(r, "getBalance") = {}
              /\ Ops(r, "put") = {} /\ Ops(r, "add") = {}
              /\ RowsOf(r, "user") = {} /\ RowsOf(r, "assistant") = {}
              /\ uuid[r] = 0
    /\ ~challenge.exists =>
          /\ messagesTable = {}
          /\ participant = initialBalance
          /\ challenge.participants_count = 0 /\ challenge.messages_count = 0

\* The participant has a balance of 2; the challenge of one request was not
\* found, the lookup of the other failed: two 500s and the balance is 2.
C30_Witness ==
    \E r, q \in Requests :
        /\ participant = Some(2)
        /\ RejectedWith(r, 500) /\ RejectedWith(q, 500)
        /\ \E i \in Ops(r, "getChallenge") : ~log[r][i].found /\ log[r][i].ok
        /\ \E i \in Ops(q, "getChallenge") : ~log[q][i].found /\ ~log[q][i].ok

(***************************************************************************)
(* C26.  For every fragment text over the alphabet (a letter, n, newline,  *)
(* double-quote, backslash) the bytes written for it are 0:" followed by   *)
(* the text with each newline replaced by backslash n and each             *)
(* double-quote preceded by a backslash, every other character as it is,   *)
(* followed by " and one newline.  The only raw newline of the bytes is    *)
(* their last character, so the newlines written so far are as many as     *)
(* the fragments written so far.                                           *)
(***************************************************************************)
EscapedChar(ch) ==
    IF ch = "NL" THEN <<"BSLASH", "n">>
    ELSE IF ch = "QUOTE" THEN <<"BSLASH", "QUOTE">>
    ELSE <<ch>>

ExpectedFrame(text) ==
    <<"0", ":", "QUOTE">>
        \o Concat([i \in 1..Len(text) |-> EscapedChar(text[i])])
        \o <<"QUOTE", "NL">>

FragmentWritten == wire.chunks > 0 /\ ~wire.pending

C26_FramedFragment ==
    /\ wire.newlines = wire.chunks
    /\ FragmentWritten =>
          /\ wire.written = ExpectedFrame(wire.rawText)
          /\ Newlines(wire.written) = {Len(wire.written)}
          /\ \A i \in 4..(Len(wire.written) - 2) :
                wire.written[i] = "QUOTE" => wire.written[i - 1] = "BSLASH"

\* The last of MaxWrites fragments held a newline, a double-quote and a
\* backslash, and as many lines as fragments have been written.
C26_Witness ==
    /\ FragmentWritten
    /\ wire.chunks = MaxWrites /\ wire.newlines = MaxWrites
    /\ {"NL", "QUOTE", "BSLASH"} \subseteq {wire.rawText[i] : i \in 1..Len(wire.rawText)}

(***************************************************************************)
(* C31.  Under sequential delivery the stored balance of a participant     *)
(* who started with a balance >= 0 is never negative; a request updates    *)
(* the balance only after reading it as >= 1, and when it does the stored  *)
(* balance is still the one it read.                                       *)
(***************************************************************************)
C31_BalanceNotNegative ==
    /\ IsNull(initialBalance) \/ Val(initialBalance) >= 0
    /\ IsNull(participant) \/ Val(participant) >= 0
    /\ \A r \in Requests :
          (Adds(r, "balance") # {} \/ pc[r] = "decBalance") =>
              \E b \in BalanceRead(r) : ~IsNull(b) /\ Val(b) >= 1

C31_DecrementStep ==
    \A r \in Requests :
        (pc[r] = "decBalance" /\ pc'[r] # pc[r]) =>
            /\ participant = loc[r].balance
            /\ ~IsNull(participant) /\ Val(participant) >= 1

C31_SequentialNeverNegative == []C31_BalanceNotNegative /\ [][C31_DecrementStep]_vars

\* The participant had one message left: the first request spent it, the
\* next one read 0 and was refused; the balance is 0.
C31_Witness ==
    \E r, q \in Requests :
        /\ initialBalance = Some(1) /\ participant = Some(0)
        /\ BalanceRead(r) = {Some(1)} /\ AddsDone(r, "balance") # {} /\ Done(r)
        /\ BalanceRead(q) = {Some(0)} /\ RejectedWith(q, 400)

(***************************************************************************)
(* C32.  As stated: a request refused because no secret is configured      *)
(* (500) or because the level is not a known one has one user row stored,  *)
(* has incremented the message counter and has decremented the balance.    *)
(***************************************************************************)
SecretRejected(r) == NoSecret(r) /\ RejectedWith(r, 500)
UnknownLevelRejected(r) == Ops(r, "getPassword") # {} /\ RejectedWith(r, 400)
RejectedAfterAccounting(r) == SecretRejected(r) \/ UnknownLevelRejected(r)

C32_AccountedBeforeRejection ==
    \A r \in Requests :
        RejectedAfterAccounting(r) =>
            /\ Cardinality(RowsOf(r, "user")) = 1
            /\ AddsDone(r, "messages_count") # {}
            /\ AddsDone(r, "balance") # {}

(***************************************************************************)
(* C32, amended.  Such a request has, before it read the secret, put its   *)
(* user message, updated the message counter and updated the balance,      *)
(* once each; every one of the three that succeeded is in the store and    *)
(* stays there: the request's user rows are its successful puts, the       *)
(* counter is the number of successful counter updates, the balance is     *)
(* the initial one minus the number of successful balance updates, and no  *)
(* step removes a row, lowers the counter or raises the balance.           *)
(***************************************************************************)
BalanceUpdated == {r \in Requests : AddsDone(r, "balance") # {}}

C32_AccountingAttempted ==
    /\ challenge.messages_count = Cardinality(MessagesCounted)
    /\ ~IsNull(initialBalance) =>
          participant = Some(Val(initialBalance) - Cardinality(BalanceUpdated))
    /\ \A r \in Requests :
          RejectedAfterAccounting(r) =>
              /\ Cardinality(Puts(r, "user")) = 1
              /\ Cardinality(Adds(r, "messages_count")) = 1
              /\ Cardinality(Adds(r, "balance")) = 1
              /\ \A s \in Ops(r, "getPassword") :
                    \A i \in Puts(r, "user") \cup Adds(r, "messages_count")
                                \cup Adds(r, "balance") : i < s
              /\ Cardinality(RowsOf(r, "user")) =
                    Cardinality({i \in Puts(r, "user") : log[r][i].ok})

C32_NeverUndone ==
    /\ messagesTable \subseteq messagesTable'
    /\ challenge'.messages_count >= challenge.messages_count
    /\ ~IsNull(participant) => ~IsNull(participant') /\ Val(participant') <= Val(participant)

C32_AccountingPrecedesRejection == []C32_AccountingAttempted /\ [][C32_NeverUndone]_vars

\* On a MEDIUM challenge with a balance of 2, one request was refused for the
\* level and the other because its read of the secret failed: two user rows,
\* two messages counted, balance 0.
C32_Witness ==
    \E r, q \in Requests :
        /\ UnknownLevelRejected(r) /\ SecretRejected(q)
        /\ Cardinality(RowsOf(r, "user")) = 1 /\ Cardinality(RowsOf(q, "user")) = 1
        /\ challenge.messages_count = 2
        /\ initialBalance = Some(2) /\ participant = Some(0)

(***************************************************************************)
(* C33.  As stated: the step that checks for a first message goes on to    *)
(* the participant increment exactly when no row of the request's          *)
(* conversation is stored at that moment.                                  *)
(***************************************************************************)
ChecksFirst(r) == pc[r] = "isFirst" /\ pc'[r] # pc[r]

C33_FiresIffNoRowStep ==
    \A r \in Requests :
        ChecksFirst(r) =>
            (pc'[r] = "incParticipants" <=> ConversationRows(ConvOf(r)) = {})

C33_FiresIffNoRow == [][C33_FiresIffNoRowStep]_vars

(***************************************************************************)
(* C33, amended.  The step goes on to the participant increment exactly    *)
(* when its query succeeded and found no row of the conversation (a failed *)
(* query answers "not first").  So, under sequential delivery, when a      *)
(* request was told "first", its user put failed and it stored no other    *)
(* row, a request of the same conversation whose query succeeds is told    *)
(* "first" too, and when both increments succeed participants_count is 2   *)
(* for the one conversation.                                               *)
(***************************************************************************)
C33_FiresIffQueryFindsNoRow ==
    \A r \in Requests :
        ChecksFirst(r) =>
            (pc'[r] = "incParticipants"
                <=> (faults' = faults /\ ConversationRows(ConvOf(r)) = {}))

LeftNoRow(r) ==
    /\ Done(r) /\ SawFirst(r)
    /\ \E i \in Puts(r, "user") : ~log[r][i].ok
    /\ RowsOf(r, "user") = {} /\ RowsOf(r, "assistant") = {}

C33_CountedAgain ==
    \A r, q \in Requests :
        ( /\ r # q /\ LeftNoRow(r)
          /\ ConvOf(q) = ConvOf(r)
          /\ \E i \in Ops(q, "query") : log[q][i].ok )
        => /\ SawFirst(q)
           /\ pc[q] # "incParticipants" => Cardinality(Adds(q, "participants_count")) = 1
           /\ (AddsDone(r, "participants_count") # {} /\ AddsDone(q, "participants_count") # {})
                 => challenge.participants_count = 2

C33_FailedPutCountsTwice == []C33_CountedAgain /\ [][C33_FiresIffQueryFindsNoRow]_vars

\* The put of the conversation's first user message failed and the request
\* ended without a reply; the next message of the conversation was counted
\* as a first message again.
C33_Witness ==
    \E r, q \in Requests :
        /\ r # q /\ LeftNoRow(r) /\ ConvOf(q) = ConvOf(r)
        /\ Done(q) /\ RowsOf(q, "user") # {}
        /\ AddsDone(r, "participants_count") # {} /\ AddsDone(q, "participants_count") # {}
        /\ challenge.participants_count = 2

(***************************************************************************)
(* C34.  On a HARD challenge, a request whose secondary stream failed      *)
(* after at least one fragment was written has ended without putting an    *)
(* assistant message: no assistant row of the request is stored, although  *)
(* fragments were forwarded.  What its accounting stored is still there:   *)
(* its user rows are its successful puts, its counter and balance updates  *)
(* are counted in the stored counter and balance, and no step removes a    *)
(* row, lowers the counter or raises the balance.                          *)
(***************************************************************************)
StreamFailedAfterFragment(r) ==
    /\ \E t \in Ops(r, "throw") : log[r][t] = EvThrow("textStream")
    /\ Ops(r, "write") # {}

C34_PartialTextNotStored ==
    \A r \in Requests :
        StreamFailedAfterFragment(r) =>
            /\ Done(r) /\ challenge.level = "HARD"
            /\ Puts(r, "assistant") = {} /\ RowsOf(r, "assistant") = {}
            /\ loc[r].agent2FullResponse # <<>>
            /\ Cardinality(Puts(r, "user")) = 1
            /\ Cardinality(RowsOf(r, "user")) =
                  Cardinality({i \in Puts(r, "user") : log[r][i].ok})
            /\ Cardinality(Adds(r, "messages_count")) = 1
            /\ Cardinality(Adds(r, "balance")) = 1
            /\ AddsDone(r, "messages_count") # {} => challenge.messages_count >= 1
            /\ AddsDone(r, "balance") # {} =>
                  Val(participant) = Val(initialBalance) - Cardinality(BalanceUpdated)

C34_AccountingRemains ==
    \A r \in Requests :
        StreamFailedAfterFragment(r) =>
            /\ RowsOf(r, "user") \subseteq messagesTable'
            /\ challenge'.messages_count >= challenge.messages_count
            /\ Val(participant') <= Val(participant)

C34_StreamFailureKeepsAccounting ==
    []C34_PartialTextNotStored /\ [][C34_AccountingRemains]_vars

\* Every fragment was forwarded, then the stream failed: the request holds
\* the text, no assistant row is stored, and the user row, the counted
\* message and the spent balance are.
C34_Witness ==
    \E r \in Requests :
        /\ StreamFailedAfterFragment(r)
        /\ Cardinality(Ops(r, "write")) = MaxFragments
        /\ RowsOf(r, "assistant") = {}
        /\ Cardinality(RowsOf(r, "user")) = 1
        /\ AddsDone(r, "messages_count") # {} /\ AddsDone(r, "balance") # {}
        /\ initialBalance = Some(1) /\ participant = Some(0)

(***************************************************************************)
(* C35.  As stated: an inserting step that starts from a cache at capacity *)
(* ends with exactly MAX_CONTRACTS entries, and when the id it inserts is  *)
(* already cached (a concurrent miss for the same id inserted it first)    *)
(* it evicts nothing.                                                      *)
(***************************************************************************)
C35_InsertStep ==
    \A c \in Callers :
        (Inserts(c) /\ Len(contractCache) >= MAX_CONTRACTS) =>
            /\ Len(contractCache') = MAX_CONTRACTS
            /\ call[c].challengeId \in CachedIds(contractCache) => call'[c].evicted = {}

C35_InsertAtCapacityKeepsSize == [][C35_InsertStep]_vars

\* What the code does: two misses for the same id overlapped on a cache of
\* two; the first insertion filled the cache, the second found it full,
\* evicted another challenge's entry and then overwrote its own id: two
\* entries are left.
C35_Witness ==
    \E c, q \in Callers :
        /\ c # q
        /\ call[c].challengeId = call[q].challengeId
        /\ CompletedMiss(c) /\ CompletedMiss(q)
        /\ \E e \in call[c].evicted : e.challengeId # call[c].challengeId
        /\ Entry(contractCache, call[c].challengeId).contract = Val(call[c].returned)
        /\ Len(contractCache) = MAX_CONTRACTS - 1

(***************************************************************************)
(* C36.  As stated: the framing is injective over the texts of the         *)
(* alphabet (a letter, n, newline, double-quote, backslash): no other text *)
(* is framed to the bytes written for the fragment.                        *)
(***************************************************************************)
SameFrame(text) ==
    {other \in Texts : other # text /\ writeTransformedChunk(other) = writeTransformedChunk(text)}

C36_FramingInjective ==
    FragmentWritten => SameFrame(wire.rawText) = {}

\* What the code does: the fragment was a newline; the bytes written for it
\* are those written for the two characters backslash, n.
C36_Witness ==
    /\ FragmentWritten
    /\ wire.rawText = <<"NL">>
    /\ wire.written = writeTransformedChunk(<<"BSLASH", "n">>)
    /\ <<"BSLASH", "n">> \in SameFrame(wire.rawText)

(***************************************************************************)
(* What a vault request has done, read from its log                        *)
(***************************************************************************)
VaultDone(o) == vault[o].pc = "done"

VaultEvents(o, op) == {i \in 1..Len(vault[o].log) : vault[o].log[i].op = op}

\* The request called unlockVault or distributeFunds of slackNotifier.ts.
ChainInvoked(o) == VaultEvents(o, "chain") # {}

\* The request's update of the challenge's status was applied.
StatusWritten(o) == \E i \in VaultEvents(o, "updateStatus") : vault[o].log[i].ok

\* The status code the request answered with.
VaultAnswered(o, status) ==
    VaultDone(o) /\ vault[o].log[Len(vault[o].log)] = EvVaultJson(status)

\* The balance in USD the unlock request read is a number greater than 0.
BalanceIsPositive ==
    \E i \in VaultEvents("unlock", "getContractBalanceWithUsd") :
        LET amount == vault.unlock.log[i].amount IN ~amount.nan /\ amount.mills > 0

\* The balance the unlock request read is not a number.
BalanceIsNaN ==
    \E i \in VaultEvents("unlock", "getContractBalanceWithUsd") : vault.unlock.log[i].amount.nan

\* One of the participant's MaxRecent most recent stored messages contains
\* the secret.
RecentMessageHasSecret ==
    \E i \in 1..Len(vault.index) :
        i <= MaxRecent /\ vaultPassword # <<>> /\ Includes(vault.index[i], vaultPassword)

\* An older message contains the secret, no recent one does.
OnlyOlderMessageHasSecret ==
    /\ ~RecentMessageHasSecret
    /\ \E i \in 1..Len(vault.index) : Includes(vault.index[i], Secret)

PasswordIsSecret == vault.unlock.password = vaultPassword /\ vaultPassword # <<>>

(***************************************************************************)
(* C37.  As stated: the unlock request calls the on-chain unlock, or       *)
(* writes the challenge status, only when its password equals the stored   *)
(* secret, the vault balance in USD it read is greater than 0 and one of   *)
(* the participant's most recent stored messages contains the secret.      *)
(***************************************************************************)
C37_UnlockOnlyWhenEligible ==
    (ChainInvoked("unlock") \/ VaultEvents("unlock", "updateStatus") # {}) =>
        /\ PasswordIsSecret
        /\ BalanceIsPositive
        /\ RecentMessageHasSecret

\* What the code does: the balance read was NaN, which the test of line 194
\* lets through; the status was written and the on-chain unlock was called.
C37_Witness ==
    /\ BalanceIsNaN
    /\ ChainInvoked("unlock")
    /\ challengeStatus = [status |-> "UNLOCKED", vault_balance |-> Some(toFixed(NaN))]

\* What holds of the code as written: the password is the secret, the
\* balance read is not a number that is <= 0 after rounding to cents, and a
\* recent message contains the secret; the on-chain call follows a status
\* write that was applied.
C37_UnlockGuardedAsCoded ==
    /\ (ChainInvoked("unlock") \/ VaultEvents("unlock", "updateStatus") # {}) =>
          /\ PasswordIsSecret
          /\ BalanceIsPositive \/ BalanceIsNaN
          /\ RecentMessageHasSecret
    /\ ChainInvoked("unlock") => StatusWritten("unlock")
    /\ (VaultDone("unlock") /\ OnlyOlderMessageHasSecret) => ~ChainInvoked("unlock")

(***************************************************************************)
(* C38.  In both vault handlers the challenge status and the balance       *)
(* snapshot are written before the on-chain call is made, and they are not *)
(* reverted: once the on-chain call has failed the caller is answered 500  *)
(* while the stored status is UNLOCKED or EXPIRED, with a snapshot.        *)
(***************************************************************************)
StatusOfRequest(o) == IF o = "unlock" THEN "UNLOCKED" ELSE "EXPIRED"

\* The request's on-chain call (unlockVault, distributeFunds) failed.
ChainFailed(o) == \E i \in VaultEvents(o, "chain") : ~vault[o].log[i].ok

WrittenBeforeChain(o) ==
    \A j \in VaultEvents(o, "chain") :
        \E i \in 1..(j - 1) : vault[o].log[i] = EvVaultUpdate(StatusOfRequest(o), TRUE)

C38_StatusStands ==
    \A o \in VaultRequests :
        /\ WrittenBeforeChain(o)
        /\ ChainInvoked(o) =>
              /\ challengeStatus.status \in {"UNLOCKED", "EXPIRED"}
              /\ ~IsNull(challengeStatus.vault_balance)
              /\ (\A other \in VaultRequests \ {o} : ~StatusWritten(other)) =>
                    challengeStatus = updateChallengeStatusAndBalance(
                                          Val(vault[o].balanceUsd), StatusOfRequest(o))
        /\ ChainFailed(o) => VaultAnswered(o, 500)

C38_NotRevertedStep ==
    challengeStatus.status # "ACTIVE" =>
        /\ challengeStatus'.status # "ACTIVE"
        /\ ~IsNull(challengeStatus'.vault_balance)

C38_StatusWrittenFirstAndKept == []C38_StatusStands /\ [][C38_NotRevertedStep]_vars

\* The unlock transaction was sent and failed: the caller got 500 and the
\* challenge is UNLOCKED; the distribute request then failed the same way
\* and left it EXPIRED.
C38_Witness ==
    /\ \E i \in VaultEvents("unlock", "chain") :
          vault.unlock.log[i] = EvVaultChain("unlockVault", TRUE, FALSE)
    /\ VaultAnswered("unlock", 500)
    /\ ChainFailed("distribute") /\ VaultAnswered("distribute", 500)
    /\ challengeStatus.status = "EXPIRED"

(***************************************************************************)
(* C39.  The orchestrator does not depend on the challenge's status: the   *)
(* same request run on the same tables with the status UNLOCKED or EXPIRED *)
(* does what the run on the ACTIVE challenge did, step for step, until a   *)
(* collaborator answers differently; when the collaborators answered alike *)
(* it gives the same response and leaves the same rows, counters and       *)
(* balance, so the message is accepted and charged.                        *)
(***************************************************************************)
FirstRun == Val(twin)

\* The second run is of the request the first run was of.
SameRequest == ~IsNull(twin) /\ pc[2] # "idle" /\ req[2] = FirstRun.req

\* The events whose outcome a collaborator decides.
Answered == {"put", "add", "notify", "getChallenge", "getBalance", "query", "getPassword"}

\* Two events at the same position that differ by a collaborator's answer:
\* a call succeeded in one run and failed in the other, a model call or a
\* stream threw in one, the stream gave another fragment or ended.
AnsweredDifferently(e, f) ==
    \/ e.op = f.op /\ e.op \in Answered /\ e.ok # f.ok
    \/ e.op = "throw" \/ f.op = "throw"
    \/ e.op = "chunk" /\ f.op = "chunk"
    \/ {e.op, f.op} = {"chunk", "put"}

\* The positions both runs have reached at which they differ.
Differences ==
    {i \in 1..Len(log[2]) : i <= Len(FirstRun.log) /\ log[2][i] # FirstRun.log[i]}

SamePath ==
    /\ Len(log[2]) > Len(FirstRun.log) => Differences # {}
    /\ \A i \in Differences :
          (\A j \in Differences : i <= j) => AnsweredDifferently(FirstRun.log[i], log[2][i])

SameWrites ==
    /\ challenge = FirstRun.challenge
    /\ participant = FirstRun.participant
    /\ RowContents(messagesTable) = FirstRun.rows
    /\ Cardinality(messagesTable) = FirstRun.count

====
